---- MODULE Spec2Model ----
(***************************************************************************)
(* Model of the Scopus database builder's DOI recovery pipeline            *)
(* (scopus_db/data_quality_filter.py), its CrossRef client and match       *)
(* scorer (scopus_db/crossref/crossref_client.py) and the reference-string *)
(* parser (scopus_db/database/creator.py).                                 *)
(*                                                                         *)
(* Text values: a Python str whose characters matter is a sequence of      *)
(* one-character strings; a str of which only blankness and equality       *)
(* matter is a TLA+ string.  Python's None is the value None.              *)
(***************************************************************************)
EXTENDS Integers, Sequences, FiniteSets, TLC

None == "<None>"

\* ------------------------------------------------------------------------
\* Generic helpers for Python str / list semantics
\* ------------------------------------------------------------------------

\* str.strip() on a field of which only blankness matters: a whitespace-only
\* value becomes the empty string.
Strip(s) == IF s = " " THEN "" ELSE s

\* Python truthiness of an optional str
Truthy(s) == s # None /\ s # ""

Min2(a, b) == IF a <= b THEN a ELSE b

\* needle in hay (substring containment on character sequences)
IsSubstring(needle, hay) ==
    \E k \in 0..(Len(hay) - Len(needle)) :
        \A j \in 1..Len(needle) : hay[k + j] = needle[j]

\* str.strip('-') on a character sequence
RECURSIVE StripDashes(_)
StripDashes(s) ==
    IF s = <<>> THEN s
    ELSE IF Head(s) = "-" THEN StripDashes(Tail(s))
    ELSE IF s[Len(s)] = "-" THEN StripDashes(SubSeq(s, 1, Len(s) - 1))
    ELSE s

\* str.lower() on the words the model uses
Lower(w) ==
    CASE w = "Deep"  -> "deep"
      [] w = "Smith" -> "smith"
      [] w = "Jones" -> "jones"
      [] OTHER -> w

\* ------------------------------------------------------------------------
\* CrossRefClient: match scoring (crossref_client.py)
\*
\* A confidence is a Python float.  The float nearest to h/100 is written
\* [h |-> h, o |-> 0]; o counts the distance from it in units of 2^-60, so
\* that ordering and the comparisons with the thresholds are those of the
\* IEEE-754 doubles the code computes.
\* ------------------------------------------------------------------------

Fl(h) == [h |-> h, o |-> 0]

FlGe(x, y) == x.h > y.h \/ (x.h = y.h /\ x.o >= y.o)
FlGt(x, y) == x.h > y.h \/ (x.h = y.h /\ x.o > y.o)

\* x + d/100 in double arithmetic (d a multiple of ten hundredths), for the
\* operands calculate_match_confidence can produce
FloatAddOffset(x, d) ==
    CASE x = [h |-> 20, o |-> 0] /\ d = 10 -> 64
      [] x = [h |-> 25, o |-> 0] /\ d = -20 -> -16
      [] x = [h |-> 30, o |-> 64] /\ d = -10 -> 32
      [] x = [h |-> 35, o |-> 64] /\ d = -20 -> 32
      [] x = [h |-> 35, o |-> 64] /\ d = 10 -> 64
      [] x = [h |-> 40, o |-> -64] /\ d = -10 -> -64
      [] x = [h |-> 40, o |-> 0] /\ d = -10 -> 64
      [] x = [h |-> 45, o |-> -128] /\ d = -10 -> -128
      [] x = [h |-> 45, o |-> -128] /\ d = 10 -> -128
      [] x = [h |-> 45, o |-> 64] /\ d = -20 -> 64
      [] x = [h |-> 55, o |-> 0] /\ d = -20 -> 64
      [] x = [h |-> 55, o |-> 0] /\ d = -10 -> 64
      [] x = [h |-> 60, o |-> 0] /\ d = -20 -> -64
      [] x = [h |-> 65, o |-> -128] /\ d = -20 -> -128
      [] x = [h |-> 65, o |-> -128] /\ d = -10 -> -128
      [] x = [h |-> 65, o |-> -128] /\ d = 10 -> -128
      [] x = [h |-> 70, o |-> 0] /\ d = -30 -> -64
      [] x = [h |-> 70, o |-> 0] /\ d = 10 -> -128
      [] x = [h |-> 75, o |-> -128] /\ d = -10 -> -128
      [] x = [h |-> 75, o |-> -128] /\ d = 10 -> -128
      [] x = [h |-> 80, o |-> -128] /\ d = 10 -> -128
      [] x = [h |-> 85, o |-> 0] /\ d = -20 -> -128
      [] x = [h |-> 85, o |-> 128] /\ d = -10 -> 128
      [] x = [h |-> 85, o |-> 128] /\ d = 10 -> 128
      [] x = [h |-> 95, o |-> 0] /\ d = -30 -> -128
      [] x = [h |-> 105, o |-> 0] /\ d = -20 -> 128
      [] x = [h |-> 105, o |-> 0] /\ d = -10 -> 128
      [] x = [h |-> 105, o |-> 0] /\ d = 10 -> 256
      [] x = [h |-> 115, o |-> 256] /\ d = -20 -> 256
      [] x = [h |-> 115, o |-> 256] /\ d = 10 -> 256
      [] OTHER -> 0

\* method_confidence.get(search_method, 0.5), in hundredths
MethodConfidence(search_method) ==
    CASE search_method = "pmid"    -> 95
      [] search_method = "journal" -> 85
      [] search_method = "title"   -> 70
      [] OTHER -> 50

\* _validate_year_match; crossref_year is
\* crossref_work['published']['date-parts'][0][0] as str, None when absent
\* (defined only when 'published' is a mapping)
ValidateYearMatch(scopus_record, crossref_work) ==
    LET scopus_year == Strip(scopus_record.Year)
        crossref_year == IF crossref_work.published = "absent" THEN None
                         ELSE crossref_work.published
    IN  [scopus |-> scopus_year,
         crossref |-> crossref_year,
         matches |-> Truthy(scopus_year) /\ Truthy(crossref_year)
                        /\ scopus_year = crossref_year]

\* set(title.lower().split()) of a title given as its sequence of words
TitleWords(title) == {Lower(title[k]) : k \in 1..Len(title)}

\* _validate_title_similarity: the similarity as the fraction num/den
\* (den > 0); 0.0 is 0/1
ValidateTitleSimilarity(scopus_record, crossref_work) ==
    LET scopus_title == scopus_record.Title
        crossref_title == IF crossref_work.title = <<>> THEN <<>>
                          ELSE crossref_work.title[1]
        scopus_words == TitleWords(scopus_title)
        crossref_words == TitleWords(crossref_title)
    IN  IF scopus_title = <<>> \/ crossref_title = <<>>
        THEN [num |-> 0, den |-> 1]
        ELSE [num |-> Cardinality(scopus_words \cap crossref_words),
              den |-> Cardinality(scopus_words \cup crossref_words)]

\* The CrossRef authors formatted "Family, G." (or "Family" without a given
\* name); authors without a family name are dropped
CrossrefAuthors(crossref_work) ==
    SelectSeq([k \in 1..Len(crossref_work.author) |->
                  [last |-> crossref_work.author[k].family,
                   comma |-> crossref_work.author[k].given # ""]],
              LAMBDA a : a.last # "")

\* the lower-cased text before the first comma of every name holding a comma
LastNames(authors) ==
    {Lower(authors[k].last) : k \in {j \in 1..Len(authors) : authors[j].comma}}

\* _validate_author_overlap: overlap_ratio as the fraction num/den
ValidateAuthorOverlap(scopus_record, crossref_work) ==
    LET scopus_authors == scopus_record.Authors
        crossref_authors == CrossrefAuthors(crossref_work)
        scopus_lastnames == LastNames(scopus_authors)
        crossref_lastnames == LastNames(crossref_authors)
        total_unique == Cardinality(scopus_lastnames \cup crossref_lastnames)
    IN  IF scopus_authors = <<>> \/ crossref_authors = <<>>
        THEN [num |-> 0, den |-> 1,
              scopus_authors |-> scopus_authors,
              crossref_authors |-> crossref_authors]
        ELSE [num |-> IF total_unique > 0
                      THEN Cardinality(scopus_lastnames \cap crossref_lastnames)
                      ELSE 0,
              den |-> IF total_unique > 0 THEN total_unique ELSE 1,
              scopus_authors |-> scopus_authors,
              crossref_authors |-> crossref_authors]

\* f"{page_start}-{page_end}".strip('-')
ScopusPages(scopus_record) ==
    StripDashes(scopus_record.PageStart \o <<"-">> \o scopus_record.PageEnd)

\* _validate_publication_details; work.page is what _extract_pages returns
ValidatePublicationDetails(scopus_record, crossref_work) ==
    LET scopus_volume == Strip(scopus_record.Volume)
        scopus_pages == ScopusPages(scopus_record)
        crossref_volume == Strip(crossref_work.volume)
        crossref_pages == crossref_work.page
    IN  [volume_match |-> scopus_volume # "" /\ crossref_volume # ""
                             /\ scopus_volume = crossref_volume,
         volume_available |-> scopus_volume # "" /\ crossref_volume # "",
         pages_match |-> scopus_pages # <<>> /\ crossref_pages # <<>>
                            /\ IsSubstring(scopus_pages, crossref_pages)]

YearAdjustment_MissingUnpenalised(scopus_record, crossref_work) ==
    LET year_score == ValidateYearMatch(scopus_record, crossref_work)
    IN  IF year_score.matches THEN 10
        ELSE IF Truthy(year_score.scopus) /\ Truthy(year_score.crossref) THEN -30
        ELSE 0

YearAdjustment_MismatchAsMissing(scopus_record, crossref_work) ==
    LET year_score == ValidateYearMatch(scopus_record, crossref_work)
    IN  IF year_score.matches THEN 10 ELSE -10

\* the adjustments, in hundredths (0 = none)
YearAdjustment(scopus_record, crossref_work) ==
    LET year_score == ValidateYearMatch(scopus_record, crossref_work)
    IN  IF year_score.matches THEN 10
        ELSE IF Truthy(year_score.scopus) /\ Truthy(year_score.crossref) THEN -30
        ELSE -10

TitleAdjustment_EveryMethod(scopus_record, crossref_work, search_method) ==
    LET title_score == ValidateTitleSimilarity(scopus_record, crossref_work)
    IN  IF 10 * title_score.num >= 8 * title_score.den THEN 10
        ELSE IF 10 * title_score.num < 5 * title_score.den THEN -20
        ELSE 0

TitleAdjustment(scopus_record, crossref_work, search_method) ==
    IF search_method # "title"
    THEN LET title_score == ValidateTitleSimilarity(scopus_record, crossref_work)
         IN  IF 10 * title_score.num > 8 * title_score.den THEN 10
             ELSE IF 10 * title_score.num < 5 * title_score.den THEN -20
             ELSE 0
    ELSE 0

AuthorAdjustment(scopus_record, crossref_work) ==
    LET author_score == ValidateAuthorOverlap(scopus_record, crossref_work)
    IN  IF 10 * author_score.num > 5 * author_score.den THEN 10
        ELSE IF 10 * author_score.num < 2 * author_score.den
                /\ author_score.scopus_authors # <<>>
                /\ author_score.crossref_authors # <<>> THEN -10
        ELSE 0

PublicationAdjustment_NoPenalty(scopus_record, crossref_work, search_method) ==
    IF search_method = "journal"
    THEN LET pub_score == ValidatePublicationDetails(scopus_record, crossref_work)
         IN  IF pub_score.volume_match /\ pub_score.pages_match THEN 10 ELSE 0
    ELSE 0

PublicationAdjustment(scopus_record, crossref_work, search_method) ==
    IF search_method = "journal"
    THEN LET pub_score == ValidatePublicationDetails(scopus_record, crossref_work)
         IN  IF pub_score.volume_match /\ pub_score.pages_match THEN 10
             ELSE IF ~pub_score.volume_match /\ pub_score.volume_available THEN -20
             ELSE 0
    ELSE 0

\* base_confidence += adj, skipped when no adjustment fires
Adjust(x, adj) ==
    IF adj = 0 THEN x ELSE [h |-> x.h + adj, o |-> FloatAddOffset(x, adj)]

\* _get_confidence_threshold_status
GetConfidenceThresholdStatus(confidence) ==
    IF FlGe(confidence, Fl(90)) THEN "high_confidence"
    ELSE IF FlGe(confidence, Fl(70)) THEN "medium_confidence"
    ELSE IF FlGe(confidence, Fl(50)) THEN "low_confidence"
    ELSE "very_low_confidence"

\* A payload on which the scorer raises: 'published' is present but is no
\* mapping (published.get fails with AttributeError)
ScoringRaises(crossref_work) == crossref_work.published = "null"

\* the sum before clamping
UnclampedConfidence(scopus_record, crossref_work, search_method) ==
    LET b0 == Fl(MethodConfidence(search_method))
        b1 == Adjust(b0, YearAdjustment(scopus_record, crossref_work))
        b2 == Adjust(b1, TitleAdjustment(scopus_record, crossref_work, search_method))
        b3 == Adjust(b2, AuthorAdjustment(scopus_record, crossref_work))
    IN  Adjust(b3, PublicationAdjustment(scopus_record, crossref_work, search_method))

FinalConfidence_Unclamped(base_confidence) == base_confidence

\* final_confidence = max(0.0, min(1.0, base_confidence))
FinalConfidence(base_confidence) ==
    IF FlGt(base_confidence, Fl(100)) THEN Fl(100)
    ELSE IF FlGt(Fl(0), base_confidence) THEN Fl(0)
    ELSE base_confidence

\* calculate_match_confidence; raised = an exception leaves the call
CalculateMatchConfidence(scopus_record, crossref_work, search_method) ==
    IF ScoringRaises(crossref_work)
    THEN [raised |-> TRUE]
    ELSE LET final_confidence ==
                 FinalConfidence(UnclampedConfidence(scopus_record, crossref_work,
                                                     search_method))
         IN  [raised |-> FALSE,
              confidence_score |-> final_confidence,
              search_method |-> search_method,
              threshold_status |-> GetConfidenceThresholdStatus(final_confidence)]

\* the dict validate_publication_match returns for a confidence result
MatchValidation(confidence_result, doi, threshold) ==
    IF confidence_result.raised
    THEN [raised |-> TRUE]
    ELSE [raised |-> FALSE,
          is_valid_match |-> FlGe(confidence_result.confidence_score, Fl(threshold)),
          confidence_score |-> confidence_result.confidence_score,
          threshold_status |-> confidence_result.threshold_status,
          doi |-> doi]

\* validate_publication_match; doi is extract_doi: work.get('DOI')
ValidatePublicationMatch(scopus_record, crossref_work, search_method, threshold) ==
    MatchValidation(
        CalculateMatchConfidence(scopus_record, crossref_work, search_method),
        crossref_work.DOI, threshold)

\* ------------------------------------------------------------------------
\* Bounds and input domains
\* ------------------------------------------------------------------------

\* csv_data holds at most MaxRecords rows
MaxRecords == 2
\* an API answer to a PubMed or journal query holds at most MaxItems works
MaxItems == 2
\* the CSV files hold at most MaxLoaded records together
MaxLoaded == 3
\* one filter is given at most MaxBatches batches
MaxBatches == 2
\* rows=str(limit) of the title query: limit=3 in _attempt_phase2b_title_recovery
TitleLimit == 3

LongTitle == <<"Deep", "learning", "survey">>
ShortTitle == <<"Deep">>

\* len(title) of a title given as its words, single spaces between them
RECURSIVE TitleLen(_)
TitleLen(t) ==
    IF t = <<>> THEN 0
    ELSE IF Len(t) = 1 THEN Len(t[1])
    ELSE Len(t[1]) + 1 + TitleLen(Tail(t))

\* A CSV row.  _recovery_method / _recovery_confidence are None while the
\* key is absent.
BaseRow ==
    [DOI |-> "", PubMedID |-> "", SourceTitle |-> "", Volume |-> "5",
     Year |-> "2020", Title |-> LongTitle,
     Authors |-> <<[last |-> "Smith", comma |-> TRUE]>>,
     AuthorIDs |-> "57", Affiliations |-> "Univ", Abstract |-> "Text",
     PageStart |-> <<"1">>, PageEnd |-> <<"5">>,
     recovery_method |-> None, recovery_confidence |-> None]

\* The rows a batch is drawn from: complete rows with their DOI, with and
\* without PubMed ID; rows without DOI (empty or whitespace only) that carry
\* all or some of the data the phases search by; a row without year; rows
\* that lack other required fields and nothing the phases search by
Rows ==
    {[BaseRow EXCEPT !.DOI = "10.1/orig", !.PubMedID = "pm1", !.SourceTitle = "J Test"],
     [BaseRow EXCEPT !.DOI = "10.1/orig"],
     [BaseRow EXCEPT !.PubMedID = "pm1", !.SourceTitle = "J Test"],
     [BaseRow EXCEPT !.DOI = " ", !.SourceTitle = "J Test", !.Title = ShortTitle],
     [BaseRow EXCEPT !.Year = "", !.Volume = "", !.SourceTitle = "J Test",
                     !.Title = ShortTitle],
     [BaseRow EXCEPT !.DOI = "10.1/orig", !.Title = ShortTitle,
                     !.Authors = <<>>, !.AuthorIDs = ""],
     [BaseRow EXCEPT !.DOI = "10.1/orig", !.Title = ShortTitle, !.AuthorIDs = " "],
     [BaseRow EXCEPT !.Title = <<>>, !.Abstract = ""],
     [BaseRow EXCEPT !.DOI = "10.1/orig", !.Title = ShortTitle,
                     !.Affiliations = " ", !.Abstract = ""],
     [BaseRow EXCEPT !.DOI = "10.1/orig", !.Title = ShortTitle, !.Abstract = ""]}

\* a row without DOI and without page data
UnpagedRow ==
    [BaseRow EXCEPT !.SourceTitle = "J Test", !.PageStart = <<>>, !.PageEnd = <<>>]

\* CrossRef works (MatchCandidate payloads)
GoodWork ==
    [DOI |-> "10.1/c1", published |-> "2020", title |-> <<LongTitle>>,
     author |-> <<[family |-> "Smith", given |-> "J"]>>,
     volume |-> "5", page |-> <<"1", "-", "5">>]
\* a different publication
OtherWork ==
    [DOI |-> "10.1/c2", published |-> "2019", title |-> <<<<"Other", "topic">>>>,
     author |-> <<[family |-> "Jones", given |-> "A"]>>,
     volume |-> "6", page |-> <<"7", "-", "9">>]
\* the works an answer can carry: the two above, the right publication
\* without author data, and the malformed payloads (no 'DOI' key, an empty
\* DOI, 'published' null)
Works ==
    {GoodWork, OtherWork,
     [GoodWork EXCEPT !.author = <<>>],
     [GoodWork EXCEPT !.DOI = None],
     [GoodWork EXCEPT !.DOI = ""],
     [GoodWork EXCEPT !.published = "null"]}

Malformed(work) == work.DOI = None \/ work.DOI = "" \/ work.published = "null"

RECURSIVE SeqsUpTo(_, _)
SeqsUpTo(S, n) ==
    IF n = 0 THEN {<<>>}
    ELSE LET shorter == SeqsUpTo(S, n - 1)
         IN  shorter \cup {Append(s, x) : s \in {t \in shorter : Len(t) = n - 1}, x \in S}

\* the message.items an answer can hold
ItemLists == SeqsUpTo(Works, MaxItems)
TitleItemLists == SeqsUpTo(Works, TitleLimit)

\* What urlopen does with a request: a 200 answer carrying JSON, an HTTP
\* error status, a transport error, a timeout, or a body that is no JSON
HttpOutcomes == {"200", "404", "429", "401", "500", "urlerror", "timeout", "badjson"}

\* the soft (transient) failures of a request
SoftFailures == {"429", "500", "urlerror", "timeout"}

\* ------------------------------------------------------------------------
\* CrossRefClient: requests (crossref_client.py)
\* ------------------------------------------------------------------------

\* _make_request after the request is sent.  raised = CrossRefAPIError
\* leaves the call; otherwise json = a parsed answer is returned (None when
\* FALSE) and items are its message.items
MakeRequest(http, items) ==
    CASE http = "200" -> [raised |-> FALSE, json |-> TRUE, items |-> items]
      [] http = "429" -> [raised |-> FALSE, json |-> FALSE, items |-> <<>>]
      [] http = "404" -> [raised |-> FALSE, json |-> FALSE, items |-> <<>>]
      [] http \in {"401", "500"} -> [raised |-> TRUE, json |-> FALSE, items |-> <<>>]
      [] OTHER -> [raised |-> FALSE, json |-> FALSE, items |-> <<>>]

\* "response and response.get('message', {}).get('items')"
HasItems(response) == response.json /\ response.items # <<>>

\* search_by_pmid, for a non-blank pmid.  An Optional[Dict] result is the
\* sequence of at most one work.
SearchByPmid(http, items) ==
    LET response == MakeRequest(http, items)
    IN  IF response.raised THEN [raised |-> TRUE, result |-> <<>>]
        ELSE IF HasItems(response)
             THEN [raised |-> FALSE, result |-> <<response.items[1]>>]
             ELSE [raised |-> FALSE, result |-> <<>>]

\* the indexes among items[:5] of the works whose pages hold `pages`
PageMatches(items, pages) ==
    {k \in 1..Min2(Len(items), 5) :
        items[k].page # <<>> /\ IsSubstring(pages, items[k].page)}

\* search_by_journal_details, for a non-blank journal; pages is the page
\* range, empty for None
SearchByJournalDetails(pages, http, items) ==
    LET response == MakeRequest(http, items)
        hits == PageMatches(response.items, pages)
    IN  IF response.raised THEN [raised |-> TRUE, result |-> <<>>]
        ELSE IF HasItems(response)
             THEN IF pages # <<>> /\ hits # {}
                  THEN [raised |-> FALSE,
                        result |-> <<response.items[CHOOSE k \in hits :
                                                       \A j \in hits : k <= j]>>]
                  ELSE [raised |-> FALSE, result |-> <<response.items[1]>>]
             ELSE [raised |-> FALSE, result |-> <<>>]

\* search_by_title, for a non-blank title
SearchByTitle(http, items) ==
    LET response == MakeRequest(http, items)
    IN  IF response.raised THEN [raised |-> TRUE, result |-> <<>>]
        ELSE IF HasItems(response)
             THEN [raised |-> FALSE, result |-> response.items]
             ELSE [raised |-> FALSE, result |-> <<>>]

\* ------------------------------------------------------------------------
\* ScopusDataQualityFilter: DOI recovery phases (data_quality_filter.py)
\* ------------------------------------------------------------------------

\* enhanced_row = row.copy() with DOI, _recovery_method, _recovery_confidence
\* (f"{confidence_score:.3f}": the score to three decimals, in hundredths)
EnhancedRow(r, validation, method) ==
    [r EXCEPT !.DOI = validation.doi,
              !.recovery_method = method,
              !.recovery_confidence = ToString(validation.confidence_score.h)]

\* What one phase does with a row and the answer to its request:
\*   called   - the phase issued its search call
\*   accepted - the phase took a match (success counters incremented)
\*   row      - the row the phase returns
PhaseSkipped(r) == [called |-> FALSE, accepted |-> FALSE, row |-> r]
PhaseMissed(r) == [called |-> TRUE, accepted |-> FALSE, row |-> r]
PhaseValidated(r, validation, method) ==
    IF ~validation.raised /\ validation.is_valid_match
    THEN [called |-> TRUE, accepted |-> TRUE,
          row |-> EnhancedRow(r, validation, method)]
    ELSE PhaseMissed(r)

\* the single-result phases: "if result:" ... validate ... inside try/except
ValidateSingle(r, search, search_method, threshold, method) ==
    IF search.raised \/ search.result = <<>>
    THEN PhaseMissed(r)
    ELSE PhaseValidated(
             r,
             ValidatePublicationMatch(r, search.result[1], search_method, threshold),
             method)

\* the conditions under which a phase issues its search call
PubmedSearchApplies(r) == Strip(r.PubMedID) # ""
JournalSearchApplies(r) ==
    Strip(r.SourceTitle) # "" /\ (Strip(r.Volume) # "" \/ Strip(r.Year) # "")
TitleSearchApplies(r) == r.Title # <<>> /\ TitleLen(r.Title) >= 10

\* _attempt_phase1_pubmed_recovery
AttemptPhase1PubmedRecovery(r, http, items) ==
    IF ~PubmedSearchApplies(r) THEN PhaseSkipped(r)
    ELSE ValidateSingle(r, SearchByPmid(http, items), "pmid", 80, "Phase1_PubMed")

\* _attempt_phase2a_journal_recovery; pages is the pages argument of the
\* journal search (empty for None)
AttemptPhase2aJournalRecovery(r, http, items) ==
    LET pages == IF r.PageStart # <<>> THEN ScopusPages(r) ELSE <<>>
    IN  IF ~JournalSearchApplies(r) THEN PhaseSkipped(r)
        ELSE ValidateSingle(r, SearchByJournalDetails(pages, http, items),
                            "journal", 75, "Phase2a_Journal")

\* the loop over the title results (best_confidence starts at 0.0 and a
\* result replaces best_match only when it is valid and strictly better):
\* the valid result of the highest confidence, the first one among equals,
\* is accepted.  validations[k] is the validation of results[k].
BestMatch(r, validations, method) ==
    LET candidates ==
            {k \in 1..Len(validations) :
                /\ validations[k].is_valid_match
                /\ FlGt(validations[k].confidence_score, Fl(0))}
        winners ==
            {k \in candidates :
                \A j \in candidates :
                    /\ ~FlGt(validations[j].confidence_score,
                             validations[k].confidence_score)
                    /\ j < k => FlGt(validations[k].confidence_score,
                                     validations[j].confidence_score)}
    IN  IF candidates = {} THEN PhaseMissed(r)
        ELSE PhaseValidated(r, validations[CHOOSE k \in winners : TRUE], method)

\* _attempt_phase2b_title_recovery; an exception raised while a result is
\* validated leaves the loop for the except clause of the phase
AttemptPhase2bTitleRecovery(r, http, items) ==
    IF ~TitleSearchApplies(r) THEN PhaseSkipped(r)
    ELSE LET search == SearchByTitle(http, items)
         IN  IF search.raised \/ search.result = <<>> THEN PhaseMissed(r)
             ELSE IF \E k \in 1..Len(search.result) : ScoringRaises(search.result[k])
                  THEN PhaseMissed(r)
                  ELSE BestMatch(
                           r,
                           [k \in 1..Len(search.result) |->
                               ValidatePublicationMatch(r, search.result[k], "title", 65)],
                           "Phase2b_Title")

\* "recovered_row.get('DOI', '').strip()" in _attempt_crossref_recovery:
\* AttributeError when the DOI is None
DoiCheckRaises(recovered_row) == recovered_row.DOI = None
DoiPresent(recovered_row) == Strip(recovered_row.DOI) # ""

\* The answers a request can get: an HTTP outcome, and for a 200 answer
\* the items it carries
Answers(lists) ==
    {[http |-> "200", items |-> items] : items \in lists}
    \cup {[http |-> h, items |-> <<>>] : h \in HttpOutcomes \ {"200"}}

\* One phase run on row r with the answer its request gets (were it sent):
\* the phase's outcome, and of the request that was sent its HTTP outcome
\* and whether the answer held a malformed work
PhaseStep(outcome, answer) ==
    [outcome |-> outcome,
     http |-> IF outcome.called THEN answer.http ELSE None,
     malformed |-> outcome.called
                   /\ \E k \in 1..Len(answer.items) : Malformed(answer.items[k])]

\* every way each phase can go, per row
Phase1Steps ==
    [r \in Rows |->
        {PhaseStep(AttemptPhase1PubmedRecovery(r, a.http, a.items), a) :
            a \in Answers(ItemLists)}]
Phase2aSteps ==
    [r \in Rows |->
        {PhaseStep(AttemptPhase2aJournalRecovery(r, a.http, a.items), a) :
            a \in Answers(ItemLists)}]
Phase2bSteps ==
    [r \in Rows |->
        {PhaseStep(AttemptPhase2bTitleRecovery(r, a.http, a.items), a) :
            a \in Answers(TitleItemLists)}]

\* ------------------------------------------------------------------------
\* OptimalScopusDatabase._parse_single_reference (database/creator.py)
\*
\* A reference is a sequence of characters.  A field of the result that is
\* None is Null; the year is an integer, NoYear while it is None.
\* ------------------------------------------------------------------------

Null == <<"<None>">>
NoYear == -1

\* \d and \w of the re module.  For \s and str.strip() the blank is the
\* only whitespace of the references modelled.
IsDigitChar(c) == c \in {"0", "1", "2", "3", "4", "5", "6", "7", "8", "9"}
IsWordChar(c) ==
    \/ IsDigitChar(c)
    \/ c \in {"a", "b", "c", "d", "e", "f", "g", "h", "i", "j", "k", "l", "m",
              "n", "o", "p", "q", "r", "s", "t", "u", "v", "w", "x", "y", "z",
              "A", "B", "C", "D", "E", "F", "G", "H", "I", "J", "K", "L", "M",
              "N", "O", "P", "Q", "R", "S", "T", "U", "V", "W", "X", "Y", "Z",
              "_"}

\* str.lower()
LowerChar(c) ==
    CASE c = "A" -> "a" [] c = "B" -> "b" [] c = "C" -> "c" [] c = "D" -> "d"
      [] c = "E" -> "e" [] c = "F" -> "f" [] c = "G" -> "g" [] c = "H" -> "h"
      [] c = "I" -> "i" [] c = "J" -> "j" [] c = "K" -> "k" [] c = "L" -> "l"
      [] c = "M" -> "m" [] c = "N" -> "n" [] c = "O" -> "o" [] c = "P" -> "p"
      [] c = "Q" -> "q" [] c = "R" -> "r" [] c = "S" -> "s" [] c = "T" -> "t"
      [] c = "U" -> "u" [] c = "V" -> "v" [] c = "W" -> "w" [] c = "X" -> "x"
      [] c = "Y" -> "y" [] c = "Z" -> "z"
      [] OTHER -> c
LowerStr(s) == [k \in 1..Len(s) |-> LowerChar(s[k])]

DigitValue(c) ==
    CASE c = "0" -> 0 [] c = "1" -> 1 [] c = "2" -> 2 [] c = "3" -> 3
      [] c = "4" -> 4 [] c = "5" -> 5 [] c = "6" -> 6 [] c = "7" -> 7
      [] c = "8" -> 8 [] c = "9" -> 9

\* str.isdigit()
IsDigitStr(s) == s # <<>> /\ \A k \in 1..Len(s) : IsDigitChar(s[k])

\* int(s) raises ValueError unless s is a number; of the texts without
\* sign, blank or underscore exactly the digit strings are numbers
IntRaises(s) == ~IsDigitStr(s)

\* int(s) of a digit string
RECURSIVE IntOf(_)
IntOf(s) ==
    IF s = <<>> THEN 0
    ELSE 10 * IntOf(SubSeq(s, 1, Len(s) - 1)) + DigitValue(s[Len(s)])

\* str.strip()
StripStr(s) ==
    LET keep == {k \in 1..Len(s) : s[k] # " "}
    IN  IF keep = {} THEN <<>>
        ELSE SubSeq(s, CHOOSE a \in keep : \A k \in keep : a <= k,
                       CHOOSE b \in keep : \A k \in keep : b >= k)

\* str.rstrip(',')
RStripCommas(s) ==
    LET keep == {k \in 1..Len(s) : s[k] # ","}
    IN  IF keep = {} THEN <<>>
        ELSE SubSeq(s, 1, CHOOSE b \in keep : \A k \in keep : b >= k)

\* s.startswith(prefix) at position k (1-based)
StartsWithAt(s, k, prefix) ==
    /\ k + Len(prefix) - 1 <= Len(s)
    /\ \A j \in 1..Len(prefix) : s[k + j - 1] = prefix[j]

\* str.split(sep) for a one-character separator
RECURSIVE SplitOn(_, _)
SplitOn(s, sep) ==
    LET at == {k \in 1..Len(s) : s[k] = sep}
    IN  IF at = {} THEN <<s>>
        ELSE LET k == CHOOSE a \in at : \A b \in at : a <= b
             IN  <<SubSeq(s, 1, k - 1)>> \o SplitOn(SubSeq(s, k + 1, Len(s)), sep)

\* str.split(): the maximal runs of non-blank characters
SplitWords(s) == SelectSeq(SplitOn(s, " "), LAMBDA w : w # <<>>)

\* sep.join(parts)
RECURSIVE JoinWith(_, _)
JoinWith(parts, sep) ==
    IF parts = <<>> THEN <<>>
    ELSE IF Len(parts) = 1 THEN parts[1]
    ELSE parts[1] \o sep \o JoinWith(Tail(parts), sep)

\* s.replace(old, '')
RECURSIVE RemoveAll(_, _)
RemoveAll(s, old) ==
    IF s = <<>> THEN <<>>
    ELSE IF StartsWithAt(s, 1, old)
         THEN RemoveAll(SubSeq(s, Len(old) + 1, Len(s)), old)
    ELSE <<s[1]>> \o RemoveAll(Tail(s), old)

\* s with its leading blanks removed
RECURSIVE LStripStr(_)
LStripStr(s) ==
    IF s # <<>> /\ s[1] = " " THEN LStripStr(Tail(s)) ELSE s

\* re.sub(r'pp\.\s*', '', part, flags=re.IGNORECASE)
RECURSIVE RemovePagePrefix(_)
RemovePagePrefix(part) ==
    IF part = <<>> THEN <<>>
    ELSE IF StartsWithAt(LowerStr(part), 1, <<"p", "p", ".">>)
         THEN RemovePagePrefix(LStripStr(SubSeq(part, 4, Len(part))))
    ELSE <<part[1]>> \o RemovePagePrefix(Tail(part))

\* any(word in text for word in words)
AnyIn(words, text) == \E w \in words : IsSubstring(w, text)

\* re.match(r'^\d+-\d+$', s)
MatchesPageRange(s) ==
    \E k \in 2..(Len(s) - 1) :
        /\ s[k] = "-"
        /\ IsDigitStr(SubSeq(s, 1, k - 1))
        /\ IsDigitStr(SubSeq(s, k + 1, Len(s)))

\* re.match(r'^pp\.', s)
MatchesPagePrefix(s) == StartsWithAt(s, 1, <<"p", "p", ".">>)

\* \b before position k of s (k in 1..Len(s)+1)
WordBoundary(s, k) ==
    (k > 1 /\ IsWordChar(s[k - 1])) # (k <= Len(s) /\ IsWordChar(s[k]))

\* the start positions of the matches of \bword\b in s, ignoring case
WordMatches(word, s) ==
    {k \in 1..(Len(s) - Len(word) + 1) :
        /\ StartsWithAt(LowerStr(s), k, LowerStr(word))
        /\ WordBoundary(s, k)
        /\ WordBoundary(s, k + Len(word))}

\* re.search(r'\bfirst\b.*\bsecond\b', s, re.IGNORECASE)
SearchWordThenWord(first, second, s) ==
    \E a \in WordMatches(first, s), b \in WordMatches(second, s) :
        b >= a + Len(first)

\* re.search(r'\((\d{4})\)(?:\s*$)', reference): the start of the match,
\* 0 when there is none
ParenYearStart(reference) ==
    LET at == {k \in 1..(Len(reference) - 5) :
                  /\ reference[k] = "("
                  /\ IsDigitStr(SubSeq(reference, k + 1, k + 4))
                  /\ reference[k + 5] = ")"
                  /\ \A j \in (k + 6)..Len(reference) : reference[j] = " "}
    IN  IF at = {} THEN 0 ELSE CHOOSE a \in at : \A b \in at : a <= b

\* re.search(r'\b(19|20)\d{2}\b', reference): the start of the match,
\* 0 when there is none
BareYearStart(reference) ==
    LET at == {k \in 1..(Len(reference) - 3) :
                  /\ SubSeq(reference, k, k + 1) \in {<<"1", "9">>, <<"2", "0">>}
                  /\ IsDigitStr(SubSeq(reference, k + 2, k + 3))
                  /\ WordBoundary(reference, k)
                  /\ WordBoundary(reference, k + 4)}
    IN  IF at = {} THEN 0 ELSE CHOOSE a \in at : \A b \in at : a <= b

EmptyResult ==
    [authors |-> Null, title |-> Null, journal |-> Null, volume |-> Null,
     issue |-> Null, pages |-> Null, year |-> NoYear]

\* the call returns result / an exception leaves the call
Returned(result) == [raised |-> FALSE, result |-> result]
RaisedError == [raised |-> TRUE, result |-> EmptyResult]

\* Python truthiness of a field of result
FieldSet(v) == v # Null /\ v # <<>>

\* lines 1407-1414: references of fewer than ten characters; the first test
\* is re.match(r'^\d{4}$', stripped)
ParseShort(stripped) ==
    IF Len(stripped) = 4 /\ IsDigitStr(stripped)
    THEN IF IntRaises(stripped) THEN RaisedError
         ELSE Returned([EmptyResult EXCEPT !.year = IntOf(stripped)])
    ELSE IF ~IsDigitStr(stripped)
         THEN Returned([EmptyResult EXCEPT !.title = stripped])
    ELSE Returned(EmptyResult)

\* lines 1420-1430: the year and the reference left for further parsing
ExtractYear(reference) ==
    LET p == ParenYearStart(reference)
        b == BareYearStart(reference)
    IN  IF p > 0
        THEN LET digits == SubSeq(reference, p + 1, p + 4)
             IN  [raised |-> IntRaises(digits),
                  year |-> IF IntRaises(digits) THEN NoYear ELSE IntOf(digits),
                  reference |->
                      StripStr(RStripCommas(StripStr(SubSeq(reference, 1, p - 1))))]
        ELSE IF b > 0
        THEN LET digits == SubSeq(reference, b, b + 3)
             IN  [raised |-> IntRaises(digits),
                  year |-> IF IntRaises(digits) THEN NoYear ELSE IntOf(digits),
                  reference |-> reference]
        ELSE [raised |-> FALSE, year |-> NoYear, reference |-> reference]

WwwMarker == <<"[", "W", "W", "W", " ", "D", "o", "c", "u", "m", "e", "n", "t", "]">>

\* lines 1433-1438
ParseWebDocument(reference, result) ==
    LET title_part == StripStr(RStripCommas(StripStr(RemoveAll(reference, WwwMarker))))
    IN  Returned([result EXCEPT !.title = title_part,
                                !.journal = <<"W", "e", "b", " ", "D", "o", "c", "u", "m", "e", "n", "t">>])

\* lines 1441-1448
ParseNoComma(reference, result) ==
    IF AnyIn({<<"s", "t", "a", "n", "d", "a", "r", "d">>, <<"s", "p", "e", "c", "i", "f", "i", "c", "a", "t", "i", "o", "n">>, <<"g", "u", "i", "d", "e", "l", "i", "n", "e">>, <<"p", "r", "i", "n", "c", "i", "p", "l", "e", "s">>, <<"t", "e", "r", "m", "i", "n", "o", "l", "o", "g", "y">>},
             LowerStr(reference))
    THEN Returned([result EXCEPT !.title = reference,
                                 !.journal = <<"S", "t", "a", "n", "d", "a", "r", "d", "/", "D", "o", "c", "u", "m", "e", "n", "t">>])
    ELSE IF Len(SplitWords(reference)) >= 3
    THEN Returned([result EXCEPT !.title = reference])
    ELSE Returned(result)

\* line 1451: [part.strip() for part in reference.split(',') if part.strip()]
Parts(reference) ==
    LET pieces == SplitOn(reference, ",")
    IN  SelectSeq([k \in 1..Len(pieces) |-> StripStr(pieces[k])],
                  LAMBDA part : part # <<>>)

PartsTooFew_Unchecked(parts) == FALSE

\* line 1453: len(parts) < 2
PartsTooFew(parts) == Len(parts) < 2

\* line 1459
IsStandards(parts) ==
    AnyIn({<<"i", "s", "o", " ">>, <<"a", "s", "t", "m", " ">>, <<"s", "t", "a", "n", "d", "a", "r", "d">>, <<"s", "p", "e", "c", "i", "f", "i", "c", "a", "t", "i", "o", "n">>, <<"g", "u", "i", "d", "e", "l", "i", "n", "e">>},
          LowerStr(JoinWith(parts, <<" ">>)))

\* lines 1462-1466; parts[0] of an empty list raises IndexError
ParseStandards(parts, result) ==
    IF Len(parts) = 0 THEN RaisedError
    ELSE LET title == IF Len(parts) > 1
                      THEN JoinWith(SubSeq(parts, 1, Len(parts) - 1), <<",", " ">>)
                      ELSE parts[1]
             numbered == Len(parts) >= 2 /\ IsDigitStr(parts[Len(parts)])
         IN  Returned([result EXCEPT
                          !.title = title,
                          !.journal = <<"S", "t", "a", "n", "d", "a", "r", "d">>,
                          !.volume = IF numbered THEN parts[Len(parts)] ELSE @])

\* journal_patterns, lines 1469-1482
\* any(re.search(pattern, part, re.IGNORECASE) for pattern in journal_patterns)
MatchesJournalPattern(part) ==
    LET words ==
            {<<"J">>, <<"P", "r", "o", "c">>, <<"N", "a", "t", "u", "r", "e">>, <<"S", "c", "i", "e", "n", "c", "e">>, <<"I", "E", "E", "E">>, <<"A", "C", "M">>, <<"A", "n", "n">>, <<"A", "r", "c", "h">>}
        word_pairs ==
            {<<<<"B", "r">>, <<"J">>>>, <<<<"A", "m">>, <<"J">>>>, <<<<"I", "n", "t">>, <<"J">>>>, <<<<"E", "u", "r">>, <<"J">>>>,
             <<<<"S", "c", "i">>, <<"R", "e", "p">>>>}
        substrings ==
            {<<"s", "u", "r", "g", "e", "r", "y">>, <<"m", "e", "d", "i", "c", "i", "n", "e">>, <<"e", "n", "g", "i", "n", "e", "e", "r", "i", "n", "g">>, <<"r", "o", "b", "o", "t", "i", "c", "s">>, <<"m", "a", "n", "u", "f", "a", "c", "t", "u", "r", "i", "n", "g">>,
             <<"t", "r", "a", "n", "s", "a", "c", "t", "i", "o", "n">>, <<"r", "e", "v", "i", "e", "w">>, <<"l", "e", "t", "t", "e", "r">>, <<"h", "n", "o">>, <<"b", "m", "c">>}
    IN  \/ \E w \in words : WordMatches(w, part) # {}
        \/ \E p \in word_pairs : SearchWordThenWord(p[1], p[2], part)
        \/ AnyIn(substrings, LowerStr(part))

\* parts[i] for a Python index i
PartAt(parts, i) == parts[i + 1]

\* lines 1485-1500: the first index from 1 on whose part is no number and
\* no page data and matches a journal pattern; -1 for None
PatternJournalIdx(parts) ==
    LET found == {i \in 1..(Len(parts) - 1) :
                     /\ ~IsDigitStr(PartAt(parts, i))
                     /\ ~MatchesPagePrefix(PartAt(parts, i))
                     /\ ~MatchesPageRange(PartAt(parts, i))
                     /\ MatchesJournalPattern(PartAt(parts, i))}
    IN  IF found = {} THEN -1 ELSE CHOOSE a \in found : \A b \in found : a <= b

\* lines 1505-1516: the position heuristic over the indices 2 to 4
HeuristicJournalIdx(parts) ==
    LET found == {i \in 2..(Min2(Len(parts), 5) - 1) :
                     LET part == StripStr(PartAt(parts, i))
                     IN  /\ Len(part) > 1
                         /\ ~IsDigitStr(part)
                         /\ ~MatchesPagePrefix(part)
                         /\ ~MatchesPageRange(part)
                         /\ \/ Len(part) <= 15
                            \/ Len(SplitWords(part)) >= 2
                            \/ AnyIn({<<"j", "o", "u", "r", "n", "a", "l">>, <<"p", "r", "o", "c">>, <<"l", "e", "t", "t">>, <<"r", "e", "v">>},
                                     LowerStr(part))}
    IN  IF found = {} THEN -1 ELSE CHOOSE a \in found : \A b \in found : a <= b

ScanJournalPart_MarkerKept(part0, result) ==
    LET part == StripStr(part0)
    IN  IF IsSubstring(<<"p", "p", ".">>, LowerStr(part))
        THEN [result EXCEPT !.pages = part]
        ELSE IF IsDigitStr(part) /\ ~FieldSet(result.volume)
        THEN [result EXCEPT !.volume = part]
        ELSE result

\* lines 1528-1544: one part after the journal
ScanJournalPart(part0, result) ==
    LET part == StripStr(part0)
    IN  IF IsSubstring(<<"p", "p", ".">>, LowerStr(part))
        THEN [result EXCEPT !.pages = StripStr(RemovePagePrefix(part))]
        ELSE IF MatchesPageRange(part) /\ ~FieldSet(result.pages)
        THEN [result EXCEPT !.pages = part]
        ELSE IF IsDigitStr(part) /\ ~FieldSet(result.volume)
        THEN [result EXCEPT !.volume = part]
        ELSE IF IsDigitStr(part) /\ FieldSet(result.volume) /\ ~FieldSet(result.issue)
        THEN [result EXCEPT !.issue = part]
        ELSE result

\* line 1526: "for part in remaining_parts"
RECURSIVE ScanJournalParts(_, _)
ScanJournalParts(remaining_parts, result) ==
    IF remaining_parts = <<>> THEN result
    ELSE ScanJournalParts(Tail(remaining_parts),
                          ScanJournalPart(Head(remaining_parts), result))

\* lines 1521-1544: authors, title, journal, then volume, issue and pages
ParseJournalFormat(parts, journal_idx, result) ==
    ScanJournalParts(
        SubSeq(parts, journal_idx + 2, Len(parts)),
        [result EXCEPT
            !.authors = PartAt(parts, 0),
            !.title = JoinWith(SubSeq(parts, 2, journal_idx), <<",", " ">>),
            !.journal = PartAt(parts, journal_idx)])

\* lines 1565-1572: one part after the third
ScanBookPart(part, result) ==
    IF IsDigitStr(part) /\ ~FieldSet(result.volume)
    THEN [result EXCEPT !.volume = part]
    ELSE IF IsDigitStr(part) /\ FieldSet(result.volume) /\ ~FieldSet(result.issue)
    THEN [result EXCEPT !.issue = part]
    ELSE IF IsSubstring(<<"p", "p", ".">>, LowerStr(part)) \/ MatchesPageRange(part)
    THEN [result EXCEPT !.pages = StripStr(RemovePagePrefix(part))]
    ELSE result

\* line 1565: "for part in parts[3:]"
RECURSIVE ScanBookParts(_, _)
ScanBookParts(rest, result) ==
    IF rest = <<>> THEN result
    ELSE ScanBookParts(Tail(rest), ScanBookPart(Head(rest), result))

\* lines 1548-1585: the fallback for books and other formats; parts[0] of
\* an empty list raises IndexError
ParseFallback(parts, result) ==
    IF Len(parts) >= 3
    THEN LET third_part == PartAt(parts, 2)
             book == \/ IsDigitStr(third_part)
                     \/ Len(third_part) < 3
                     \/ AnyIn({<<"p", "r", "e", "s", "s">>, <<"p", "u", "b", "l", "i", "s", "h", "e", "r">>, <<"b", "o", "o", "k", "s">>, <<"e", "d", "i", "t", "i", "o", "n">>},
                              LowerStr(third_part))
             first == [result EXCEPT
                          !.authors = PartAt(parts, 0),
                          !.title = PartAt(parts, 1),
                          !.journal = IF book THEN <<"B", "o", "o", "k", "/", "M", "o", "n", "o", "g", "r", "a", "p", "h">> ELSE third_part,
                          !.volume = IF book /\ IsDigitStr(third_part)
                                     THEN third_part ELSE @]
         IN  Returned(ScanBookParts(SubSeq(parts, 4, Len(parts)), first))
    ELSE IF Len(parts) = 2
    THEN Returned([result EXCEPT !.authors = PartAt(parts, 0),
                                 !.title = PartAt(parts, 1),
                                 !.journal = <<"B", "o", "o", "k", "/", "M", "o", "n", "o", "g", "r", "a", "p", "h">>])
    ELSE IF Len(parts) = 0 THEN RaisedError
    ELSE IF Len(PartAt(parts, 0)) > 10
    THEN Returned([result EXCEPT !.title = PartAt(parts, 0)])
    ELSE Returned([result EXCEPT !.authors = PartAt(parts, 0)])

\* lines 1588-1592 for one field: ' '.join(v.split()) or None
CleanField(v) ==
    LET normalized == JoinWith(SplitWords(v), <<" ">>)
    IN  IF FieldSet(v)
        THEN IF normalized = <<>> THEN Null ELSE normalized
        ELSE v

\* lines 1588-1592: the year is no str and is left alone
CleanUp(result) ==
    [authors |-> CleanField(result.authors), title |-> CleanField(result.title),
     journal |-> CleanField(result.journal), volume |-> CleanField(result.volume),
     issue |-> CleanField(result.issue), pages |-> CleanField(result.pages),
     year |-> result.year]

\* lines 1519-1594
ParseParts(parts, result) ==
    LET journal_idx == IF PatternJournalIdx(parts) # -1
                       THEN PatternJournalIdx(parts)
                       ELSE HeuristicJournalIdx(parts)
        parsed == IF journal_idx # -1 /\ journal_idx >= 2
                  THEN Returned(ParseJournalFormat(parts, journal_idx, result))
                  ELSE ParseFallback(parts, result)
    IN  IF parsed.raised THEN parsed ELSE Returned(CleanUp(parsed.result))

ParseBody_CommaFirst(reference, result) ==
    IF \A k \in 1..Len(reference) : reference[k] # ","
    THEN ParseNoComma(reference, result)
    ELSE IF IsSubstring(WwwMarker, reference) THEN ParseWebDocument(reference, result)
    ELSE LET parts == Parts(reference)
         IN  IF PartsTooFew(parts)
             THEN Returned([result EXCEPT !.title = reference])
             ELSE IF IsStandards(parts) THEN ParseStandards(parts, result)
             ELSE ParseParts(parts, result)

\* lines 1433-1594: the reference after year extraction
ParseBody(reference, result) ==
    IF IsSubstring(WwwMarker, reference) THEN ParseWebDocument(reference, result)
    ELSE IF \A k \in 1..Len(reference) : reference[k] # ","
    THEN ParseNoComma(reference, result)
    ELSE LET parts == Parts(reference)
         IN  IF PartsTooFew(parts)
             THEN Returned([result EXCEPT !.title = reference])
             ELSE IF IsStandards(parts) THEN ParseStandards(parts, result)
             ELSE ParseParts(parts, result)

\* _parse_single_reference
ParseSingleReference(reference) ==
    LET stripped == StripStr(reference)
    IN  IF reference = <<>> \/ Len(stripped) < 3 THEN Returned(EmptyResult)
        ELSE IF Len(stripped) < 10 THEN ParseShort(stripped)
        ELSE LET comma_cut == IF stripped[1] = ","
                              THEN StripStr(Tail(stripped))
                              ELSE reference
                 y == ExtractYear(comma_cut)
             IN  IF y.raised THEN RaisedError
                 ELSE ParseBody(y.reference, [EmptyResult EXCEPT !.year = y.year])

\* the keys of the dict the parser builds
ResultFields == {"authors", "title", "journal", "volume", "issue", "pages", "year"}

\* the texts references are put together from
Fragments ==
    {<<",">>,
     <<",", ",", ",", ",", ",">>,
     <<" ">>,
     <<"a">>,
     <<"(", "2", "0", "2", "0", ")">>,
     <<"1", "9", "9", "9">>,
     <<"1", "2", ",", " ">>,
     <<"D", "e", "e", "p", " ", "n", "e", "t", "s">>,
     <<"S", "m", "i", "t", "h", " ", "J", ",", " ", "D", "e", "e", "p", " ", "n", "e", "t", "s", ",", " ">>,
     <<"N", "a", "t", "u", "r", "e", ",", " ", "1", "2", ",", " ", "3", ",", " ", "p", "p", ".", " ", "1", "-", "5", ",", " ">>,
     <<"N", "a", "t", "u", "r", "e", ",", " ", "1", "2", ",", " ", "3", ",", " ", "p", "p", ".", " ", "1", "-", "5", ",", " ", "(", "2", "0", "2", "0", ")">>,
     <<"[", "W", "W", "W", " ", "D", "o", "c", "u", "m", "e", "n", "t", "]">>,
     <<"s", "t", "a", "n", "d", "a", "r", "d", " ">>,
     <<"S", "m", "i", "t", "h", " ", "J", ",", " ", "D", "e", "e", "p", " ", "n", "e", "t", "s", ",", " ", "M", "e", "d", " ", "P", "h", "y", "s", ",", " ", "p", "p", ".", " ", "1", "-", "5", " ", "(", "R", "e", "v", "i", "e", "w", ")">>,
     <<"(", "1", "2", "3", "4", ")">>}

\* a reference is the concatenation of at most MaxFragments fragments
MaxFragments == 2

\* ------------------------------------------------------------------------
\* ScopusDataQualityFilter.filter_csv_data as a state machine
\* ------------------------------------------------------------------------

VARIABLES
    pc,                 \* position in filter_csv_data
    csv_len,            \* len(csv_data)
    i,                  \* 1-based index of the row being processed
    original_row,       \* the row of csv_data being processed, as read
    row,                \* the loop variable "row" (replaced by the recovery result)
    filtered_data,      \* the rows included so far
    exclusion_log,      \* category of every excluded row, in order
    stats,              \* self.stats and its crossref_recovery_stats
    enable_filtering,
    enable_crossref_recovery,
    crossref_client,    \* TRUE once the client object exists
    total_requests,     \* the client's stats["total_requests"]
    exception,          \* the exception that left filter_csv_data, None if none
    \* observations of the run
    doi_calls,          \* a request was sent for a row whose DOI was non-blank on input
    accepted_phase,     \* first phase that accepted a match for this row
    late_call,          \* a phase sent a request for this row after one accepted
    auth_rejected,      \* a request was answered with HTTP 401
    calls_after_auth,   \* a request was sent after a 401 answer
    last_call,          \* phase and outcome of the latest request for this row
    malformed_seen      \* an answer held a malformed work

\* CrossRefClient, one instance (crossref_client.py)
VARIABLES
    cpc,                \* position of the caller inside a search_by_* call
    clock,              \* time.time(), in ticks
    rate_limit,         \* self.rate_limit, requests per second
    last_request_time,  \* self._last_request_time
    wake,               \* end of the running time.sleep()
    query,              \* the query of the call in progress
    returned,           \* what the latest finished call gave its caller
    client_stats,       \* self.stats
    ncalls,             \* search_by_* calls made so far
    \* observations of the run
    sent,               \* HTTP requests sent, per query
    releases,           \* the times at which _rate_limit let the last two requests go
    attempts            \* HTTP requests sent by the call in progress

\* calculate_match_confidence applied to one input
VARIABLES score_in, score_out

\* _parse_single_reference applied to one input
VARIABLES parse_in, parse_out

\* A call of one of the other operations (the simplified filter, the
\* constructors): [op, ...arguments] in flight, and what the call returned;
\* both are the empty sequence while there is none
VARIABLES call_in, call_out

pipeline_vars == <<pc, csv_len, i, original_row, row, filtered_data, exclusion_log,
                   stats, enable_filtering, enable_crossref_recovery,
                   crossref_client, total_requests, exception, doi_calls,
                   accepted_phase, late_call, auth_rejected, calls_after_auth,
                   last_call, malformed_seen>>
client_vars == <<cpc, clock, rate_limit, last_request_time, wake, query, returned,
                 client_stats, ncalls, sent, releases, attempts>>
function_vars == <<score_in, score_out, parse_in, parse_out, call_in, call_out>>

vars == <<pipeline_vars, client_vars, function_vars>>

NoCall == [phase |-> None, http |-> None]

\* the state after ScopusDataQualityFilter(...) is constructed, for a batch
\* of csv_len rows; in_use is FALSE for a filter that is never run
PipelineInit(in_use) ==
    /\ pc = IF in_use THEN "start" ELSE "idle"
    /\ csv_len \in IF in_use THEN 0..MaxRecords ELSE {0}
    /\ i = 0
    /\ original_row = BaseRow
    /\ row = BaseRow
    /\ filtered_data = <<>>
    /\ exclusion_log = <<>>
    /\ stats = [total_records |-> 0, excluded_records |-> 0, included_records |-> 0,
                attempted |-> 0, successful |-> 0, failed |-> 0,
                phase1_attempted |-> 0, phase1_successful |-> 0,
                phase2a_attempted |-> 0, phase2a_successful |-> 0,
                phase2b_attempted |-> 0, phase2b_successful |-> 0]
    /\ enable_filtering \in IF in_use THEN BOOLEAN ELSE {TRUE}
    /\ enable_crossref_recovery \in IF in_use THEN BOOLEAN ELSE {FALSE}
    /\ crossref_client = FALSE
    /\ total_requests = 0
    /\ exception = None
    /\ doi_calls = FALSE
    /\ accepted_phase = None
    /\ late_call = FALSE
    /\ auth_rejected = FALSE
    /\ calls_after_auth = FALSE
    /\ last_call = NoCall
    /\ malformed_seen = FALSE

\* filter_csv_data up to the loop: total_records, the confirmation prompt
\* (confirmed = the user's answer, or skip_confirmation) and the client
FilterStart ==
    /\ pc = "start"
    /\ pc' = "loop"
    /\ stats' = [stats EXCEPT !.total_records = csv_len]
    /\ \E confirmed \in BOOLEAN :
          /\ enable_crossref_recovery' = (enable_crossref_recovery /\ confirmed)
          /\ crossref_client' = (enable_crossref_recovery /\ confirmed)
    /\ UNCHANGED <<i, original_row, row, filtered_data, exclusion_log,
                   total_requests, exception, csv_len, enable_filtering,
                   doi_calls, accepted_phase, late_call, auth_rejected,
                   calls_after_auth, last_call, malformed_seen>>
    /\ UNCHANGED <<client_vars, function_vars>>

\* the bookkeeping of one phase: counters, the request count, observations
PhaseEffects(phase, step) ==
    /\ stats' = [stats EXCEPT
                   ![phase \o "_attempted"] = @ + (IF step.outcome.called THEN 1 ELSE 0),
                   ![phase \o "_successful"] = @ + (IF step.outcome.accepted THEN 1 ELSE 0),
                   !.successful = @ + (IF step.outcome.accepted THEN 1 ELSE 0)]
    /\ total_requests' = total_requests + (IF step.outcome.called THEN 1 ELSE 0)
    /\ doi_calls' = (doi_calls \/ (step.outcome.called /\ Strip(original_row.DOI) # ""))
    /\ late_call' = (late_call \/ (step.outcome.called /\ accepted_phase # None))
    /\ accepted_phase' = IF step.outcome.accepted /\ accepted_phase = None
                         THEN phase ELSE accepted_phase
    /\ auth_rejected' = (auth_rejected \/ step.http = "401")
    /\ calls_after_auth' = (calls_after_auth \/ (step.outcome.called /\ auth_rejected))
    /\ last_call' = IF step.outcome.called THEN [phase |-> phase, http |-> step.http]
                    ELSE last_call
    /\ malformed_seen' = (malformed_seen \/ step.malformed)

AfterPhase_StopOnMiss(outcome, next) ==
    IF DoiCheckRaises(outcome.row)
    THEN /\ pc' = "raised"
         /\ exception' = "AttributeError"
         /\ row' = row
    ELSE /\ pc' = "check"
         /\ exception' = exception
         /\ row' = outcome.row

\* _attempt_crossref_recovery after a phase returned recovered_row: return
\* it when its DOI is set, else go on with `next`
AfterPhase(outcome, next) ==
    IF DoiCheckRaises(outcome.row)
    THEN /\ pc' = "raised"
         /\ exception' = "AttributeError"
         /\ row' = row
    ELSE IF DoiPresent(outcome.row)
    THEN /\ pc' = "check"
         /\ exception' = exception
         /\ row' = outcome.row
    ELSE /\ pc' = next
         /\ exception' = exception
         /\ row' = row

\* the loop head: the next row of csv_data, and the entry of
\* _attempt_crossref_recovery (attempted += 1) when recovery is on
LoopNext ==
    /\ pc = "loop"
    /\ i < csv_len
    /\ i' = i + 1
    /\ \E r \in Rows : original_row' = r /\ row' = r
    /\ IF enable_crossref_recovery /\ crossref_client
       THEN /\ pc' = "phase1"
            /\ stats' = [stats EXCEPT !.attempted = @ + 1]
       ELSE /\ pc' = "check"
            /\ stats' = stats
    /\ UNCHANGED <<filtered_data, exclusion_log, enable_crossref_recovery,
                   crossref_client, total_requests, exception, csv_len, enable_filtering,
                   doi_calls, accepted_phase, late_call, auth_rejected,
                   calls_after_auth, last_call, malformed_seen>>
    /\ UNCHANGED <<client_vars, function_vars>>

Phase1 ==
    /\ pc = "phase1"
    /\ \E step \in Phase1Steps[row] :
          /\ PhaseEffects("phase1", step)
          /\ AfterPhase(step.outcome, "phase2a")
    /\ UNCHANGED <<i, original_row, filtered_data, exclusion_log,
                   enable_crossref_recovery, crossref_client, csv_len,
                   enable_filtering>>
    /\ UNCHANGED <<client_vars, function_vars>>

Phase2a ==
    /\ pc = "phase2a"
    /\ \E step \in Phase2aSteps[row] :
          /\ PhaseEffects("phase2a", step)
          /\ AfterPhase(step.outcome, "phase2b")
    /\ UNCHANGED <<i, original_row, filtered_data, exclusion_log,
                   enable_crossref_recovery, crossref_client, csv_len,
                   enable_filtering>>
    /\ UNCHANGED <<client_vars, function_vars>>

\* after the last phase "return original_row" takes the place of a next phase
Phase2b ==
    /\ pc = "phase2b"
    /\ \E step \in Phase2bSteps[row] :
          /\ PhaseEffects("phase2b", step)
          /\ AfterPhase(step.outcome, "check")
    /\ UNCHANGED <<i, original_row, filtered_data, exclusion_log,
                   enable_crossref_recovery, crossref_client, csv_len,
                   enable_filtering>>
    /\ UNCHANGED <<client_vars, function_vars>>

ShouldExcludeRecord_DoiOptional(r) ==
    IF ~enable_filtering THEN [exclude |-> FALSE, category |-> "Filtering disabled"]
    ELSE IF r.Authors = <<>> THEN [exclude |-> TRUE, category |-> "MISSING_AUTHORS"]
    ELSE IF Strip(r.AuthorIDs) = ""
         THEN [exclude |-> TRUE, category |-> "MISSING_AUTHOR_IDS"]
    ELSE IF r.Title = <<>> THEN [exclude |-> TRUE, category |-> "MISSING_TITLE"]
    ELSE IF Strip(r.Year) = "" THEN [exclude |-> TRUE, category |-> "MISSING_YEAR"]
    ELSE IF Strip(r.Affiliations) = ""
         THEN [exclude |-> TRUE, category |-> "MISSING_AFFILIATIONS"]
    ELSE IF Strip(r.Abstract) = ""
         THEN [exclude |-> TRUE, category |-> "MISSING_ABSTRACT"]
    ELSE [exclude |-> FALSE, category |-> "PASSED"]

\* should_exclude_record: the reason category, "PASSED" when the row is kept
ShouldExcludeRecord(r) ==
    IF ~enable_filtering THEN [exclude |-> FALSE, category |-> "Filtering disabled"]
    ELSE IF r.Authors = <<>> THEN [exclude |-> TRUE, category |-> "MISSING_AUTHORS"]
    ELSE IF Strip(r.AuthorIDs) = ""
         THEN [exclude |-> TRUE, category |-> "MISSING_AUTHOR_IDS"]
    ELSE IF r.Title = <<>> THEN [exclude |-> TRUE, category |-> "MISSING_TITLE"]
    ELSE IF Strip(r.Year) = "" THEN [exclude |-> TRUE, category |-> "MISSING_YEAR"]
    ELSE IF Strip(r.DOI) = "" THEN [exclude |-> TRUE, category |-> "MISSING_DOI"]
    ELSE IF Strip(r.Affiliations) = ""
         THEN [exclude |-> TRUE, category |-> "MISSING_AFFILIATIONS"]
    ELSE IF Strip(r.Abstract) = ""
         THEN [exclude |-> TRUE, category |-> "MISSING_ABSTRACT"]
    ELSE [exclude |-> FALSE, category |-> "PASSED"]

\* the rest of the loop body: should_exclude_record, then the exclusion log
\* entry or filtered_data.append(row).  The iteration's variables are dead
\* afterwards and return to their initial values.
Check ==
    /\ pc = "check"
    /\ pc' = "loop"
    /\ LET verdict == ShouldExcludeRecord(row)
       IN  IF verdict.exclude
           THEN /\ exclusion_log' = Append(exclusion_log,
                                           [row_index |-> i, category |-> verdict.category])
                /\ stats' = [stats EXCEPT !.excluded_records = @ + 1]
                /\ filtered_data' = filtered_data
           ELSE /\ filtered_data' = Append(filtered_data, row)
                /\ stats' = [stats EXCEPT !.included_records = @ + 1]
                /\ exclusion_log' = exclusion_log
    /\ original_row' = BaseRow
    /\ row' = BaseRow
    /\ accepted_phase' = None
    /\ late_call' = FALSE
    /\ last_call' = NoCall
    /\ UNCHANGED <<i, enable_crossref_recovery, crossref_client, total_requests,
                   exception, csv_len, enable_filtering, doi_calls, auth_rejected, calls_after_auth,
                   malformed_seen>>
    /\ UNCHANGED <<client_vars, function_vars>>

\* after the loop: the summary divides by total_records, then the reports
\* are written and filtered_data is returned
LoopEnd ==
    /\ pc = "loop"
    /\ i = csv_len
    /\ IF stats.total_records = 0
       THEN pc' = "raised" /\ exception' = "ZeroDivisionError"
       ELSE pc' = "done" /\ exception' = exception
    /\ UNCHANGED <<i, original_row, row, filtered_data, exclusion_log, stats,
                   enable_crossref_recovery, crossref_client, total_requests,
                   csv_len, enable_filtering,
                   doi_calls, accepted_phase, late_call, auth_rejected,
                   calls_after_auth, last_call, malformed_seen>>
    /\ UNCHANGED <<client_vars, function_vars>>

\* ------------------------------------------------------------------------
\* CrossRefClient: one instance serving a sequence of search calls
\* ------------------------------------------------------------------------

\* the clock counts TicksPerSecond ticks a second and stops at MaxClock; a
\* run makes at most MaxCalls search calls
TicksPerSecond == 2
MaxClock == 8
MaxCalls == 2

\* rate_limit: limiting off, one request a second, one request a tick
RateLimits == {0, 1, TicksPerSecond}

Queries ==
    {[op |-> "search_by_pmid", arg |-> "pm1"],
     [op |-> "search_by_title", arg |-> "Deep learning survey"]}

\* min_interval = 1.0 / self.rate_limit, in ticks (rate_limit > 0)
MinInterval(r) == TicksPerSecond \div r

SleepTime_None(min_interval, time_since_last) == 0

\* sleep_time = min_interval - time_since_last
SleepTime(min_interval, time_since_last) == min_interval - time_since_last

\* the search_by_* method of a query, given the answer to its request
SearchResult(q, http, items) ==
    IF q.op = "search_by_pmid" THEN SearchByPmid(http, items)
    ELSE SearchByTitle(http, items)

\* CrossRefClient(mailto_email, rate_limit=...): _last_request_time = 0.0,
\* while time.time() is at least a second past the epoch; limits are the
\* values rate_limit is drawn from
ClientInit(limits) ==
    /\ cpc = "idle"
    /\ clock = TicksPerSecond
    /\ rate_limit \in limits
    /\ last_request_time = 0
    /\ wake = 0
    /\ query = [op |-> None, arg |-> None]
    /\ returned = [raised |-> FALSE, empty |-> TRUE, http |-> None]
    /\ client_stats = [total_requests |-> 0, successful_requests |-> 0,
                       failed_requests |-> 0, rate_limited_requests |-> 0]
    /\ ncalls = 0
    /\ sent = [q \in Queries |-> 0]
    /\ releases = <<>>
    /\ attempts = 0

\* time passes
Tick ==
    /\ clock < MaxClock
    /\ clock' = clock + 1
    /\ UNCHANGED <<cpc, rate_limit, last_request_time, wake, query, returned,
                   client_stats, ncalls, sent, releases, attempts>>
    /\ UNCHANGED <<pipeline_vars, function_vars>>

\* a caller enters search_by_pmid / search_by_title with a non-blank
\* argument and reaches _make_request
ClientCall ==
    /\ cpc = "idle"
    /\ ncalls < MaxCalls
    /\ \E q \in Queries : query' = q
    /\ ncalls' = ncalls + 1
    /\ attempts' = 0
    /\ cpc' = "rate_limit"
    /\ UNCHANGED <<clock, rate_limit, last_request_time, wake, returned,
                   client_stats, sent, releases>>
    /\ UNCHANGED <<pipeline_vars, function_vars>>

\* _rate_limit up to time.sleep: return at once when limiting is off, sleep
\* when the last request is less than min_interval ago
RateLimitCheck ==
    /\ cpc = "rate_limit"
    /\ IF rate_limit <= 0
       THEN cpc' = "send" /\ wake' = wake
       ELSE LET current_time == clock
                min_interval == MinInterval(rate_limit)
                time_since_last == current_time - last_request_time
            IN  IF time_since_last < min_interval
                THEN /\ cpc' = "sleep"
                     /\ wake' = clock + SleepTime(min_interval, time_since_last)
                ELSE /\ cpc' = "stamp"
                     /\ wake' = wake
    /\ UNCHANGED <<clock, rate_limit, last_request_time, query, returned,
                   client_stats, ncalls, sent, releases, attempts>>
    /\ UNCHANGED <<pipeline_vars, function_vars>>

\* time.sleep(sleep_time) returns once that much time has passed
SleepDone ==
    /\ cpc = "sleep"
    /\ clock >= wake
    /\ cpc' = "stamp"
    /\ UNCHANGED <<clock, rate_limit, last_request_time, wake, query, returned,
                   client_stats, ncalls, sent, releases, attempts>>
    /\ UNCHANGED <<pipeline_vars, function_vars>>

\* self._last_request_time = time.time(): the request is let go
Stamp ==
    /\ cpc = "stamp"
    /\ last_request_time' = clock
    /\ releases' = IF releases = <<>> THEN <<clock>>
                   ELSE <<releases[Len(releases)], clock>>
    /\ cpc' = "send"
    /\ UNCHANGED <<clock, rate_limit, wake, query, returned, client_stats, ncalls,
                   sent, attempts>>
    /\ UNCHANGED <<pipeline_vars, function_vars>>

\* the rest of _make_request: the request is sent and answered, and
\* search_by_* returns (after the two-second pause on HTTP 429)
Send ==
    /\ cpc = "send"
    /\ \E http \in HttpOutcomes, items \in {<<>>, <<GoodWork>>} :
          /\ http # "200" => items = <<>>
          /\ LET result == SearchResult(query, http, items)
             IN  returned' = [raised |-> result.raised,
                              empty |-> result.result = <<>>,
                              http |-> http]
          /\ client_stats' =
                [client_stats EXCEPT
                    !.total_requests = @ + 1,
                    !.successful_requests = @ + (IF http = "200" THEN 1 ELSE 0),
                    !.rate_limited_requests = @ + (IF http = "429" THEN 1 ELSE 0),
                    !.failed_requests =
                        @ + (IF http \in {"200", "429", "404"} THEN 0 ELSE 1)]
          /\ IF http = "429"
             THEN cpc' = "backoff" /\ wake' = clock + 2 * TicksPerSecond
             ELSE cpc' = "idle" /\ wake' = wake
    /\ sent' = [sent EXCEPT ![query] = @ + 1]
    /\ attempts' = attempts + 1
    /\ UNCHANGED <<clock, rate_limit, last_request_time, query, ncalls, releases>>
    /\ UNCHANGED <<pipeline_vars, function_vars>>

\* time.sleep(2.0) of the HTTP 429 handler ends
BackoffDone ==
    /\ cpc = "backoff"
    /\ clock >= wake
    /\ cpc' = "idle"
    /\ UNCHANGED <<clock, rate_limit, last_request_time, wake, query, returned,
                   client_stats, ncalls, sent, releases, attempts>>
    /\ UNCHANGED <<pipeline_vars, function_vars>>

Next ==
    \/ FilterStart
    \/ LoopNext
    \/ Phase1
    \/ Phase2a
    \/ Phase2b
    \/ Check
    \/ LoopEnd

\* no call of calculate_match_confidence / _parse_single_reference under way
FunctionsIdle ==
    /\ score_in = <<>> /\ score_out = <<>>
    /\ parse_in = <<>> /\ parse_out = <<>>
    /\ call_in = <<>> /\ call_out = <<>>

Init == PipelineInit(TRUE) /\ ClientInit({0}) /\ FunctionsIdle

\* a batch run through filter_csv_data
Spec == Init /\ [][Next]_vars

ClientNext ==
    \/ Tick
    \/ ClientCall
    \/ RateLimitCheck
    \/ SleepDone
    \/ Stamp
    \/ Send
    \/ BackoffDone

\* one client instance serving search calls
\* a client constructed with one of the rate limits; no filter is run
InitClient == PipelineInit(FALSE) /\ ClientInit(RateLimits) /\ FunctionsIdle

SpecClient == InitClient /\ [][ClientNext]_vars

\* ------------------------------------------------------------------------
\* calculate_match_confidence applied to one record, work and method
\* ------------------------------------------------------------------------

\* records differing in the fields the scorer reads
ScoreRecords ==
    {[BaseRow EXCEPT !.Year = y, !.Title = t, !.Authors = a, !.Volume = v] :
        y \in {"2020", ""},
        t \in {LongTitle, ShortTitle, <<"Other">>, <<"Deep", "learning", "survey", "of">>},
        a \in {<<[last |-> "Smith", comma |-> TRUE]>>, <<>>},
        v \in {"5", "6"}}

\* the three methods of the pipeline and one the scorer does not know
SearchMethods == {"pmid", "journal", "title", "doi"}

\* the works the scorer is called with: those of the answers, and the right
\* publication without 'published', under a longer title, with an author of
\* whom only the family name is given, and a work on other pages
ScoreWorks ==
    Works \cup {[GoodWork EXCEPT !.published = "absent"],
                [GoodWork EXCEPT !.title = <<<<"deep", "learning", "survey", "of", "nets">>>>],
                [GoodWork EXCEPT !.author = <<[family |-> "Smith", given |-> ""]>>],
                [GoodWork EXCEPT !.page = <<"1", "1", "-", "5", "0">>]}

ScoreCall ==
    /\ score_in = <<>>
    /\ \E record \in ScoreRecords, work \in ScoreWorks, method \in SearchMethods :
          score_in' = <<[scopus_record |-> record, crossref_work |-> work,
                         search_method |-> method]>>
    /\ UNCHANGED score_out
    /\ UNCHANGED <<pipeline_vars, client_vars, parse_in, parse_out, call_in, call_out>>

ScoreReturn ==
    /\ score_in # <<>>
    /\ score_out = <<>>
    /\ score_out' = <<CalculateMatchConfidence(score_in[1].scopus_record,
                                               score_in[1].crossref_work,
                                               score_in[1].search_method)>>
    /\ UNCHANGED score_in
    /\ UNCHANGED <<pipeline_vars, client_vars, parse_in, parse_out, call_in, call_out>>

ScoreNext ==
    \/ ScoreCall
    \/ ScoreReturn

\* before a call of the scorer or of the parser; no filter is run
InitFunctions == PipelineInit(FALSE) /\ ClientInit({0}) /\ FunctionsIdle

SpecScore == InitFunctions /\ [][ScoreNext]_vars

\* ------------------------------------------------------------------------
\* _parse_single_reference applied to one reference
\* ------------------------------------------------------------------------

References ==
    {JoinWith(fragments, <<>>) : fragments \in SeqsUpTo(Fragments, MaxFragments)}

ParseCall ==
    /\ parse_in = <<>>
    /\ \E reference \in References : parse_in' = <<reference>>
    /\ UNCHANGED parse_out
    /\ UNCHANGED <<pipeline_vars, client_vars, score_in, score_out, call_in, call_out>>

ParseReturn ==
    /\ parse_in # <<>>
    /\ parse_out = <<>>
    /\ parse_out' = <<ParseSingleReference(parse_in[1])>>
    /\ UNCHANGED parse_in
    /\ UNCHANGED <<pipeline_vars, client_vars, score_in, score_out, call_in, call_out>>

ParseNext ==
    \/ ParseCall
    \/ ParseReturn

SpecParse == InitFunctions /\ [][ParseNext]_vars

\* ------------------------------------------------------------------------
\* data_quality_filter_simple.ScopusDataQualityFilter, the filter
\* OptimalScopusDatabase uses (data_quality_filter_simple.py)
\* ------------------------------------------------------------------------

\* should_exclude_record: the loop over self.required_fields (authors,
\* author_ids, title, year, affiliations, abstract), each value found by
\* _get_field_value under its Scopus column header
SimpleShouldExcludeRecord(r, filtering) ==
    LET blank == <<r.Authors = <<>>, Strip(r.AuthorIDs) = "", r.Title = <<>>,
                   Strip(r.Year) = "", Strip(r.Affiliations) = "",
                   Strip(r.Abstract) = "">>
        reasons == <<"MISSING_AUTHORS", "MISSING_AUTHOR_IDS", "MISSING_TITLE",
                     "MISSING_YEAR", "MISSING_AFFILIATIONS", "MISSING_ABSTRACT">>
        missing == {k \in 1..Len(blank) : blank[k]}
    IN  IF ~filtering \/ missing = {} THEN [exclude |-> FALSE, category |-> "OTHER"]
        ELSE [exclude |-> TRUE,
              category |-> reasons[CHOOSE k \in missing : \A j \in missing : k <= j]]

\* filter_csv_data: the rows kept, in order, and the log of the exclusions
SimpleFilterCsvData(csv_data, filtering) ==
    LET entries == [k \in 1..Len(csv_data) |->
                       [row_index |-> k,
                        category |-> SimpleShouldExcludeRecord(csv_data[k],
                                                               filtering).category]]
    IN  [filtered_data |->
             SelectSeq(csv_data,
                       LAMBDA r : ~SimpleShouldExcludeRecord(r, filtering).exclude),
         exclusion_log |->
             SelectSeq(entries,
                       LAMBDA e : SimpleShouldExcludeRecord(csv_data[e.row_index],
                                                            filtering).exclude)]

\* lines 142, 175 and 180: self.stats after filter_csv_data(csv_data) on a
\* filter whose stats were `before`; total_records is assigned, the other
\* two are added to
SimpleFilterStats(before, csv_data, filtering) ==
    LET result == SimpleFilterCsvData(csv_data, filtering)
    IN  [total_records |-> Len(csv_data),
         excluded_records |-> before.excluded_records + Len(result.exclusion_log),
         included_records |-> before.included_records + Len(result.filtered_data)]

\* filter_csv_data called with one batch after the other on one filter
RECURSIVE SimpleFilterCalls(_, _, _)
SimpleFilterCalls(before, batches, filtering) ==
    IF batches = <<>> THEN before
    ELSE SimpleFilterCalls(SimpleFilterStats(before, Head(batches), filtering),
                           Tail(batches), filtering)

\* ------------------------------------------------------------------------
\* The constructors and their email check (data_quality_filter.py,
\* crossref_client.py).  An email is a sequence of characters, Null for None.
\* ------------------------------------------------------------------------

IsValidEmail_Any(email) == TRUE

\* _is_valid_email: "@" in email and "." in email.split("@")[1]
IsValidEmail(email) ==
    /\ \E k \in 1..Len(email) : email[k] = "@"
    /\ LET domain == SplitOn(email, "@")[2]
       IN  \E k \in 1..Len(domain) : domain[k] = "."

\* ScopusDataQualityFilter.__init__: raised is the exception that leaves the
\* constructor, None when the object is constructed
NewFilter(recovery, crossref_email) ==
    IF recovery /\ (crossref_email = Null \/ crossref_email = <<>>)
    THEN [raised |-> "ValueError"]
    ELSE IF recovery /\ ~IsValidEmail(crossref_email)
    THEN [raised |-> "ValueError"]
    ELSE [raised |-> None, enable_crossref_recovery |-> recovery,
          crossref_email |-> crossref_email]

\* CrossRefClient.__init__
NewClient(mailto_email) ==
    IF ~IsValidEmail(mailto_email) THEN [raised |-> "ValueError"]
    ELSE [raised |-> None, mailto_email |-> mailto_email]

\* ------------------------------------------------------------------------
\* OptimalScopusDatabase._deduplicate_records (creator.py).  A record is its
\* DOI and its Title, character sequences or Null for None (a short CSV line
\* read by csv.DictReader).
\* ------------------------------------------------------------------------

DeduplicateRecord_Unstripped(record, state) ==
    IF record.DOI = Null \/ record.Title = Null
    THEN [state EXCEPT !.raised = "AttributeError"]
    ELSE IF StripStr(record.DOI) = <<>>
    THEN [state EXCEPT !.unique_records = Append(@, record)]
    ELSE IF record.DOI \in state.seen_dois
    THEN [state EXCEPT !.duplicate_count = @ + 1]
    ELSE [state EXCEPT !.seen_dois = @ \cup {record.DOI},
                       !.unique_records = Append(@, record)]

\* lines 691-749: one turn of "for i, record in enumerate(all_records)";
\* record.get('DOI', '').strip() of None raises AttributeError, and so does
\* the same call for 'Title'
DeduplicateRecord(record, state) ==
    IF record.DOI = Null \/ record.Title = Null
    THEN [state EXCEPT !.raised = "AttributeError"]
    ELSE LET doi == StripStr(record.DOI)
         IN  IF doi = <<>>
             THEN [state EXCEPT !.unique_records = Append(@, record)]
             ELSE IF doi \in state.seen_dois
             THEN [state EXCEPT !.duplicate_count = @ + 1]
             ELSE [state EXCEPT !.seen_dois = @ \cup {doi},
                                !.unique_records = Append(@, record)]

\* line 691: the loop over all_records, left by the first exception
RECURSIVE DeduplicateLoop(_, _)
DeduplicateLoop(records, state) ==
    IF records = <<>> \/ state.raised # None THEN state
    ELSE DeduplicateLoop(Tail(records), DeduplicateRecord(Head(records), state))

\* _deduplicate_records: (unique_records, duplicate_count), or the exception
\* that leaves the call
DeduplicateRecords(all_records) ==
    LET final == DeduplicateLoop(all_records,
                                 [raised |-> None, seen_dois |-> {},
                                  unique_records |-> <<>>, duplicate_count |-> 0])
    IN  IF final.raised # None THEN [raised |-> final.raised]
        ELSE [raised |-> None, unique_records |-> final.unique_records,
              duplicate_count |-> final.duplicate_count]

\* ------------------------------------------------------------------------
\* One call of one of these operations
\* ------------------------------------------------------------------------

OperationCall ==
    /\ call_in = <<>>
    /\ LET emails ==
              {<<>>,
                   <<"i", "n", "v", "a", "l", "i", "d", "-", "e", "m", "a", "i", "l">>,
                   <<"a", "@", "b">>,
                   <<"a", ".", "b", "@", "c">>,
                   <<"a", "@", "b", ".", "c">>,
                   <<"@", ".">>,
                   <<"a", "@", "b", "@", "c", ".", "d">>,
                   <<"a", "@", "b", ".", "c", "@", "d">>,
                   <<"r", "e", "s", "e", "a", "r", "c", "h", "e", "r", "@", "u", "n", "i", "v", "e", "r", "s", "i", "t", "y", ".", "e", "d", "u">>}
           title_items ==
              SeqsUpTo(Works \cup {[GoodWork EXCEPT !.published = "2019",
                                                    !.DOI = "10.1/c3"]},
                       TitleLimit)
           batches_of ==
              SeqsUpTo(SeqsUpTo({BaseRow, [BaseRow EXCEPT !.Title = <<>>,
                                                         !.Abstract = ""]},
                                MaxRecords),
                       MaxBatches)
           loaded ==
              {[DOI |-> d, Title |-> <<"T">>] :
                   d \in {<<>>, <<" ">>, <<"1", "0", ".", "1", "/", "a">>, <<" ", "1", "0", ".", "1", "/", "a">>, <<"1", "0", ".", "1", "/", "b">>}}
                  \cup {[DOI |-> Null, Title |-> <<"T">>],
                        [DOI |-> <<"1", "0", ".", "1", "/", "a">>, Title |-> Null]}
       IN  \/ \E csv_data \in SeqsUpTo(Rows, MaxRecords), filtering \in BOOLEAN :
                 call_in' = <<[op |-> "simple_filter", csv_data |-> csv_data,
                               enable_filtering |-> filtering]>>
           \/ \E recovery \in BOOLEAN, email \in emails \cup {Null} :
                 call_in' = <<[op |-> "new_filter",
                               enable_crossref_recovery |-> recovery,
                               crossref_email |-> email]>>
           \/ \E email \in emails :
                 call_in' = <<[op |-> "new_client", mailto_email |-> email]>>
           \/ \E r \in Rows \cup {UnpagedRow}, a \in Answers(ItemLists) :
                 call_in' = <<[op |-> "phase2a", row |-> r, http |-> a.http,
                               items |-> a.items]>>
           \/ \E r \in Rows \cup {UnpagedRow}, a \in Answers(title_items) :
                 call_in' = <<[op |-> "phase2b", row |-> r, http |-> a.http,
                               items |-> a.items]>>
           \/ \E batches \in batches_of, filtering \in BOOLEAN :
                 call_in' = <<[op |-> "simple_filter_calls", batches |-> batches,
                               enable_filtering |-> filtering]>>
           \/ \E all_records \in SeqsUpTo(loaded, MaxLoaded) :
                 call_in' = <<[op |-> "deduplicate", all_records |-> all_records]>>
    /\ UNCHANGED call_out
    /\ UNCHANGED <<pipeline_vars, client_vars, score_in, score_out, parse_in, parse_out>>

OperationResult(call) ==
    CASE call.op = "simple_filter" ->
             SimpleFilterCsvData(call.csv_data, call.enable_filtering)
      [] call.op = "new_filter" ->
             NewFilter(call.enable_crossref_recovery, call.crossref_email)
      [] call.op = "new_client" -> NewClient(call.mailto_email)
      [] call.op = "phase2a" ->
             AttemptPhase2aJournalRecovery(call.row, call.http, call.items)
      [] call.op = "phase2b" ->
             AttemptPhase2bTitleRecovery(call.row, call.http, call.items)
      [] call.op = "deduplicate" -> DeduplicateRecords(call.all_records)
      [] call.op = "simple_filter_calls" ->
             [stats |-> SimpleFilterCalls(
                            [total_records |-> 0, excluded_records |-> 0,
                             included_records |-> 0],
                            call.batches, call.enable_filtering)]

OperationReturn ==
    /\ call_in # <<>>
    /\ call_out = <<>>
    /\ call_out' = <<OperationResult(call_in[1])>>
    /\ UNCHANGED call_in
    /\ UNCHANGED <<pipeline_vars, client_vars, score_in, score_out, parse_in, parse_out>>

OperationNext ==
    \/ OperationCall
    \/ OperationReturn

SpecOperation == InitFunctions /\ [][OperationNext]_vars

\* ------------------------------------------------------------------------
\* Properties
\* ------------------------------------------------------------------------

\* C1: no CrossRef request is ever sent for a record whose DOI field was
\* non-blank on input, whatever its other fields hold.
C1_NoCallWhenDoiPresent == ~doi_calls

\* _recovery_method written by each phase
PhaseMethod(phase) ==
    CASE phase = "phase1"  -> "Phase1_PubMed"
      [] phase = "phase2a" -> "Phase2a_Journal"
      [] phase = "phase2b" -> "Phase2b_Title"

\* C2: once a phase has accepted a match for a record no later phase sends a
\* request for it, and the record leaves recovery with the method of the
\* earliest phase that accepted.
C2_FirstAcceptingPhaseWins ==
    /\ ~late_call
    /\ (pc = "check" /\ accepted_phase # None)
          => row.recovery_method = PhaseMethod(accepted_phase)

\* C3: once a request was answered with HTTP 401 filter_csv_data has ended
\* with an exception, and no request is sent after the 401.
C3_AuthRejectionSurfaced ==
    /\ auth_rejected => pc = "raised"
    /\ ~calls_after_auth

\* where recovery stands after a phase's request failed softly: the next
\* phase whose conditions hold, the quality check when there is none
ProceedsAfter(phase) ==
    IF DoiPresent(original_row) THEN pc = "check"
    ELSE CASE phase = "phase1" ->
                \/ pc = "phase2a"
                \/ pc = "phase2b" /\ ~JournalSearchApplies(original_row)
                \/ pc = "check" /\ ~JournalSearchApplies(original_row)
                                /\ ~TitleSearchApplies(original_row)
           [] phase = "phase2a" ->
                \/ pc = "phase2b"
                \/ pc = "check" /\ ~TitleSearchApplies(original_row)
           [] phase = "phase2b" -> pc = "check"

\* C4: when the latest request for the record under recovery failed softly
\* (transport error, timeout, HTTP 429, HTTP 5xx), no exception has left
\* filter_csv_data, the phase took no match and left the row as it was, and
\* recovery goes on with the next applicable phase or the quality check.
C4_SoftFailureIsNoMatch ==
    last_call.http \in SoftFailures =>
        /\ exception = None
        /\ pc # "raised"
        /\ accepted_phase # last_call.phase
        /\ row = original_row
        /\ ProceedsAfter(last_call.phase)

\* C4 witness: the PubMed lookup of a record without DOI was answered with
\* HTTP 500 and the journal phase is next
C4_SoftFailureSeen ==
    /\ last_call = [phase |-> "phase1", http |-> "500"]
    /\ ~DoiPresent(original_row)
    /\ JournalSearchApplies(original_row)
    /\ pc = "phase2a"

\* C5: a malformed work in an answer never makes an exception leave
\* filter_csv_data.
C5_MalformedCandidateSkipped == malformed_seen => exception = None


\* C6: a search call whose request failed transiently has re-issued the
\* request and returns its empty value without raising.
C6_TransientFailureRetried ==
    (cpc = "idle" /\ returned.http \in {"500", "urlerror", "timeout"}) =>
        /\ ~returned.raised
        /\ returned.empty
        /\ attempts > 1

\* C7: with rate_limit r > 0 two consecutive requests are let go at least
\* 1/r seconds apart; a caller that arrives early sleeps no longer than to
\* the end of that interval, and every finished call has sent its request.
C7_RequestsSpaced ==
    rate_limit > 0 =>
        /\ Len(releases) = 2 =>
              rate_limit * (releases[2] - releases[1]) >= TicksPerSecond
        /\ cpc = "sleep" => wake = last_request_time + MinInterval(rate_limit)
        /\ (cpc = "idle" /\ ncalls > 0) => attempts = 1

\* C7 witness: a caller arrived within the interval, slept, and was let go
\* exactly one interval after the request before
C7_CallerSlept ==
    /\ rate_limit = 1
    /\ Len(releases) = 2
    /\ releases[2] = wake
    /\ releases[2] - releases[1] = TicksPerSecond
    /\ cpc = "idle"
    /\ ncalls = 2

\* C8: no query is sent over HTTP more than once in a run.
C8_OneRequestPerQuery == \A q \in Queries : sent[q] <= 1

\* the adjustments made for an input of the scorer
Adjustments(in) ==
    {YearAdjustment(in.scopus_record, in.crossref_work),
     TitleAdjustment(in.scopus_record, in.crossref_work, in.search_method),
     AuthorAdjustment(in.scopus_record, in.crossref_work),
     PublicationAdjustment(in.scopus_record, in.crossref_work, in.search_method)}

\* C9: every score calculate_match_confidence returns lies in [0, 1]; for
\* the PubMed method with matching years and no negative adjustment it is
\* exactly 1.0.
C9_ScoreInUnitInterval ==
    (score_out # <<>> /\ ~score_out[1].raised) =>
        LET score == score_out[1].confidence_score
            in == score_in[1]
        IN  /\ FlGe(score, Fl(0))
            /\ FlGe(Fl(100), score)
            /\ (/\ in.search_method = "pmid"
                /\ YearAdjustment(in.scopus_record, in.crossref_work) = 10
                /\ \A adj \in Adjustments(in) : adj >= 0) => score = Fl(100)

\* C9 witness: a PubMed match with equal years whose sum of base and
\* adjustments exceeds 1.0 is scored 1.0
C9_ClampedAtOne ==
    /\ score_out # <<>>
    /\ ~score_out[1].raised
    /\ score_in[1].search_method = "pmid"
    /\ YearAdjustment(score_in[1].scopus_record, score_in[1].crossref_work) = 10
    /\ FlGt(UnclampedConfidence(score_in[1].scopus_record, score_in[1].crossref_work,
                                score_in[1].search_method), Fl(100))
    /\ score_out[1].confidence_score = Fl(100)

\* C10: _parse_single_reference returns for every reference, without
\* raising, a record with exactly the fields authors, title, journal,
\* volume, issue, pages, year.
C10_ParserTotal ==
    parse_out # <<>> =>
        /\ ~parse_out[1].raised
        /\ DOMAIN parse_out[1].result = ResultFields

\* C10 witness: a reference of ten or more characters holding nothing but
\* commas and blanks was parsed
C10_PunctuationOnlyParsed ==
    /\ parse_out # <<>>
    /\ Len(StripStr(parse_in[1])) >= 10
    /\ Parts(parse_in[1]) = <<>>
    /\ ~parse_out[1].raised

\* C11: in every record _parse_single_reference returns, no string field
\* is the empty string, and every populated string field holds no run of
\* two blanks and neither starts nor ends with a blank or a comma.
C11_FieldsNormalised ==
    (parse_out # <<>> /\ ~parse_out[1].raised) =>
        \A f \in ResultFields \ {"year"} :
            LET v == parse_out[1].result[f]
            IN  /\ v # <<>>
                /\ v # Null =>
                       /\ ~IsSubstring(<<" ", " ">>, v)
                       /\ v[1] \notin {" ", ","}
                       /\ v[Len(v)] \notin {" ", ","}

C13_SimpleFilterRequiresAll ==
    (call_out # <<>> /\ call_in[1].op = "simple_filter"
        /\ call_in[1].enable_filtering) =>
        \A k \in 1..Len(call_out[1].filtered_data) :
            LET r == call_out[1].filtered_data[k]
            IN  /\ r.Authors # <<>>
                /\ Strip(r.AuthorIDs) # ""
                /\ r.Title # <<>>
                /\ Strip(r.Year) # ""
                /\ Strip(r.DOI) # ""
                /\ Strip(r.Affiliations) # ""
                /\ Strip(r.Abstract) # ""

\* C14: a recovery-enabled filter or a client is constructed only with an
\* email that holds an "@" and a "." somewhere after it; a missing email and
\* an email without these raise ValueError; researcher@university.edu is
\* accepted.
C14_EmailChecked ==
    (call_out # <<>>
        /\ \/ call_in[1].op = "new_client"
           \/ call_in[1].op = "new_filter" /\ call_in[1].enable_crossref_recovery) =>
        LET email == IF call_in[1].op = "new_client" THEN call_in[1].mailto_email
                     ELSE call_in[1].crossref_email
            acceptable ==
                /\ email # Null
                /\ \E k \in 1..Len(email) :
                      email[k] = "@" /\ \E j \in (k + 1)..Len(email) : email[j] = "."
        IN  /\ call_out[1].raised = None => acceptable
            /\ ~acceptable => call_out[1].raised = "ValueError"
            /\ email = <<"r", "e", "s", "e", "a", "r", "c", "h", "e", "r", "@", "u", "n", "i", "v", "e", "r", "s", "i", "t", "y", ".", "e", "d", "u">> =>
                  call_out[1].raised = None

\* C14 witness: a recovery-enabled filter was refused for an email without
\* "@"
C14_InvalidEmailRefused ==
    /\ call_out # <<>>
    /\ call_in[1].op = "new_filter"
    /\ call_in[1].enable_crossref_recovery
    /\ call_in[1].crossref_email = <<"i", "n", "v", "a", "l", "i", "d", "-", "e", "m", "a", "i", "l">>
    /\ call_out[1].raised = "ValueError"

\* the case of C15: a reference 'A, T, J, v, i, pp. p-q, (Y)' whose
\* comma-separated fields are trimmed and single-spaced, where v, i, p, q
\* are numbers, Y is four digits, J matches a journal pattern, T (the fields
\* between A and J) matches none, and neither a standards keyword nor the
\* web-document marker occurs, is parsed into authors = A, title = T,
\* journal = J, volume = v, issue = i, pages = 'p-q' and year = Y.  With
\* journals_only, J is moreover no page data (no 'pp.' prefix, no 'n-m').
C15_Parsed(journals_only) ==
    parse_out # <<>> =>
        LET reference == parse_in[1]
            pieces == SplitOn(reference, ",")
            n == Len(pieces)
            fields == [k \in 1..n |-> IF k = 1 THEN pieces[1] ELSE Tail(pieces[k])]
            T == JoinWith(SubSeq(fields, 2, n - 5), <<",", " ">>)
            pp == <<"p", "p", ".", " ">>
            page_range == SubSeq(fields[n - 1], 5, Len(fields[n - 1]))
            Y == SubSeq(fields[n], 2, 5)
        IN  (/\ n >= 7
             /\ \A k \in 2..n : pieces[k] # <<>> /\ pieces[k][1] = " "
             /\ \A k \in 1..n :
                    /\ fields[k] # <<>>
                    /\ fields[k][1] # " " /\ fields[k][Len(fields[k])] # " "
                    /\ ~IsSubstring(<<" ", " ">>, fields[k])
             /\ Len(fields[n]) = 6 /\ fields[n][1] = "(" /\ fields[n][6] = ")"
             /\ IsDigitStr(Y)
             /\ StartsWithAt(fields[n - 1], 1, pp)
             /\ \E d \in 2..(Len(page_range) - 1) :
                    /\ page_range[d] = "-"
                    /\ IsDigitStr(SubSeq(page_range, 1, d - 1))
                    /\ IsDigitStr(SubSeq(page_range, d + 1, Len(page_range)))
             /\ IsDigitStr(fields[n - 2])
             /\ IsDigitStr(fields[n - 3])
             /\ ~IsDigitStr(fields[n - 4])
             /\ MatchesJournalPattern(fields[n - 4])
             /\ journals_only => /\ ~MatchesPagePrefix(fields[n - 4])
                                 /\ ~MatchesPageRange(fields[n - 4])
             /\ ~MatchesJournalPattern(T)
             /\ ~IsStandards(fields)
             /\ ~IsSubstring(WwwMarker, reference))
            => parse_out[1] =
                   [raised |-> FALSE,
                    result |-> [authors |-> fields[1], title |-> T,
                                journal |-> fields[n - 4],
                                volume |-> fields[n - 3], issue |-> fields[n - 2],
                                pages |-> page_range, year |-> IntOf(Y)]]

C16_WebDocumentTitle ==
    (parse_out # <<>> /\ IsSubstring(WwwMarker, parse_in[1])) =>
        LET stripped == StripStr(parse_in[1])
            y == ExtractYear(IF stripped[1] = "," THEN StripStr(Tail(stripped))
                             ELSE parse_in[1])
            at == {k \in 1..Len(y.reference) : StartsWithAt(y.reference, k, WwwMarker)}
            first == CHOOSE a \in at : \A b \in at : a <= b
            preceding == SubSeq(y.reference, 1, first - 1)
        IN  parse_out[1] =
                [raised |-> FALSE,
                 result |-> [authors |-> Null,
                             title |-> StripStr(RStripCommas(StripStr(preceding))),
                             journal |-> <<"W", "e", "b", " ", "D", "o", "c", "u", "m", "e", "n", "t">>,
                             volume |-> Null, issue |-> Null, pages |-> Null,
                             year |-> y.year]]

\* the case of C17: a journal-method call whose candidate has a year and a
\* volume, both different from the record's year and volume, and for which
\* neither the title nor the author adjustment fires
C17_Case ==
    /\ score_out # <<>>
    /\ ~score_out[1].raised
    /\ LET in == score_in[1]
       IN  /\ in.search_method = "journal"
           /\ Strip(in.scopus_record.Year) # ""
           /\ in.crossref_work.published \notin {"absent", "null", None, ""}
           /\ Strip(in.scopus_record.Year) # in.crossref_work.published
           /\ Strip(in.scopus_record.Volume) # ""
           /\ Strip(in.crossref_work.volume) # ""
           /\ Strip(in.scopus_record.Volume) # Strip(in.crossref_work.volume)
           /\ TitleAdjustment(in.scopus_record, in.crossref_work, in.search_method) = 0
           /\ AuthorAdjustment(in.scopus_record, in.crossref_work) = 0

\* C17 as stated: in that case the final score is 0.35 and the status
\* bucket is very_low_confidence.
C17_ScoreIs035 ==
    C17_Case => /\ score_out[1].confidence_score = Fl(35)
                /\ score_out[1].threshold_status = "very_low_confidence"

\* C17 amended: in that case the final score is the double 0.85 - 0.3 - 0.2,
\* which is 0.35000000000000003, one unit in the last place (2^-54) above
\* the double 0.35, and the status bucket is very_low_confidence.
C17_ScoreIsOneUlpAbove035 ==
    C17_Case => /\ score_out[1].confidence_score = [h |-> 35, o |-> 64]
                /\ score_out[1].threshold_status = "very_low_confidence"

\* C17 witness: such a call has returned, in the bucket very_low_confidence
C17_MismatchScored ==
    /\ C17_Case
    /\ score_in[1].crossref_work = OtherWork
    /\ score_out[1].threshold_status = "very_low_confidence"

\* C18: the journal phase issues its search iff the record has a non-empty
\* Source title and a non-empty Volume or Year; it then scores each of the
\* first (up to) five candidates of the answer with the journal method and
\* accepts the first one scoring >= 0.75, so that the record is recovered
\* in this phase whenever one of them scores >= 0.75 (answers whose
\* candidates can all be scored).
C18_JournalPhaseScoresCandidates ==
    (/\ call_out # <<>>
     /\ call_in[1].op = "phase2a"
     /\ \A k \in 1..Len(call_in[1].items) : ~ScoringRaises(call_in[1].items[k])) =>
        LET r == call_in[1].row
            out == call_out[1]
            applies == /\ Strip(r.SourceTitle) # ""
                       /\ Strip(r.Volume) # "" \/ Strip(r.Year) # ""
            candidates == IF call_in[1].http = "200"
                          THEN SubSeq(call_in[1].items, 1, Min2(Len(call_in[1].items), 5))
                          ELSE <<>>
            good == {k \in 1..Len(candidates) :
                        LET c == CalculateMatchConfidence(r, candidates[k], "journal")
                        IN  ~c.raised /\ FlGe(c.confidence_score, Fl(75))}
        IN  /\ out.called <=> applies
            /\ applies =>
                   IF good = {} THEN ~out.accepted
                   ELSE /\ out.accepted
                        /\ out.row.DOI =
                               candidates[CHOOSE k \in good : \A j \in good : k <= j].DOI
                        /\ out.row.recovery_method = "Phase2a_Journal"

\* C19: the title phase issues its query iff the record's title has ten or
\* more characters; among the candidates the answer returns it accepts the
\* one with the highest title-method score that is >= 0.65, the earliest of
\* them on ties, and it leaves the record unrecovered iff no returned
\* candidate has such a score.
C19_TitlePhaseAcceptsBest ==
    (call_out # <<>> /\ call_in[1].op = "phase2b") =>
        LET r == call_in[1].row
            out == call_out[1]
            applies == TitleLen(r.Title) >= 10
            candidates == IF call_in[1].http = "200" THEN call_in[1].items ELSE <<>>
            scores == [k \in 1..Len(candidates) |->
                          CalculateMatchConfidence(r, candidates[k], "title")]
            meets == {k \in 1..Len(candidates) :
                         /\ ~scores[k].raised
                         /\ FlGe(scores[k].confidence_score, Fl(65))}
            best == CHOOSE k \in meets :
                        \A j \in meets :
                            \/ FlGt(scores[k].confidence_score, scores[j].confidence_score)
                            \/ /\ scores[k].confidence_score = scores[j].confidence_score
                               /\ k <= j
        IN  /\ out.called <=> applies
            /\ applies =>
                   IF meets = {} THEN ~out.accepted /\ out.row = r
                   ELSE /\ out.accepted
                        /\ out.row.DOI = candidates[best].DOI
                        /\ out.row.recovery_method = "Phase2b_Title"

\* C20: every phase counts one attempt per record on which it issues its
\* search call and one success per record it accepts, so that at all times
\* phaseN_successful <= phaseN_attempted <= attempted for each phase N, and
\* successful = phase1_successful + phase2a_successful + phase2b_successful
\* <= attempted.
C20_CountersConsistent ==
    /\ \A phase \in {"phase1", "phase2a", "phase2b"} :
           /\ stats[phase \o "_successful"] <= stats[phase \o "_attempted"]
           /\ stats[phase \o "_attempted"] <= stats.attempted
    /\ stats.successful = stats.phase1_successful + stats.phase2a_successful
                              + stats.phase2b_successful
    /\ stats.successful <= stats.attempted

\* the score calculate_match_confidence returns for the call `in` when its
\* four adjustments are year, title, author and publication (hundredths)
ScoreFrom(in, year, title, author, publication) ==
    FinalConfidence(
        Adjust(Adjust(Adjust(Adjust(Fl(MethodConfidence(in.search_method)), year),
                             title),
                      author),
               publication))

\* C21: for every search method the year adjustment is +0.10 iff the
\* record's year and the candidate's published year are both present and
\* equal, -0.30 iff both are present and differ, and -0.10 iff at least one
\* of them is missing; the returned score is the one this adjustment gives.
C21_YearAdjustment ==
    (score_out # <<>> /\ ~score_out[1].raised) =>
        LET in == score_in[1]
            record_year == Strip(in.scopus_record.Year)
            both == record_year # "" /\ in.crossref_work.published # "absent"
            expected == IF both /\ record_year = in.crossref_work.published THEN 10
                        ELSE IF both THEN -30
                        ELSE -10
        IN  /\ YearAdjustment(in.scopus_record, in.crossref_work) = expected
            /\ score_out[1].confidence_score =
                   ScoreFrom(in, expected,
                             TitleAdjustment(in.scopus_record, in.crossref_work,
                                             in.search_method),
                             AuthorAdjustment(in.scopus_record, in.crossref_work),
                             PublicationAdjustment(in.scopus_record, in.crossref_work,
                                                   in.search_method))

\* C21 witness: a candidate without published year was scored for a record
\* with a year by the title method: 0.70 - 0.10 + 0.10 for the authors
C21_MissingYearScored ==
    /\ score_out # <<>>
    /\ score_in[1].search_method = "title"
    /\ score_in[1].crossref_work.published = "absent"
    /\ score_in[1].scopus_record.Year = "2020"
    /\ score_in[1].scopus_record.Authors # <<>>
    /\ ~score_out[1].raised
    /\ score_out[1].confidence_score.h = 70

\* C22: for the methods other than 'title' the title adjustment is +0.10 iff
\* the Jaccard similarity of the sets of lower-cased words of the record's
\* title and of the candidate's title exceeds 0.8, -0.20 iff it is below
\* 0.5, and none otherwise; for the method 'title' there is none; the
\* returned score is the one this adjustment gives.
C22_TitleAdjustment ==
    (score_out # <<>> /\ ~score_out[1].raised) =>
        LET in == score_in[1]
            record_title == in.scopus_record.Title
            work_title == IF in.crossref_work.title = <<>> THEN <<>>
                          ELSE in.crossref_work.title[1]
            record_words == {Lower(record_title[k]) : k \in 1..Len(record_title)}
            work_words == {Lower(work_title[k]) : k \in 1..Len(work_title)}
            common == Cardinality(record_words \cap work_words)
            all == Cardinality(record_words \cup work_words)
            expected == IF in.search_method = "title" THEN 0
                        ELSE IF all > 0 /\ 10 * common > 8 * all THEN 10
                        ELSE IF all = 0 \/ 10 * common < 5 * all THEN -20
                        ELSE 0
        IN  /\ TitleAdjustment(in.scopus_record, in.crossref_work, in.search_method)
                   = expected
            /\ score_out[1].confidence_score =
                   ScoreFrom(in, YearAdjustment(in.scopus_record, in.crossref_work),
                             expected,
                             AuthorAdjustment(in.scopus_record, in.crossref_work),
                             PublicationAdjustment(in.scopus_record, in.crossref_work,
                                                   in.search_method))

\* C22 witness: a PubMed candidate whose title shares four of five words
\* with the record's (similarity 0.8 exactly) was scored without title
\* adjustment: 0.95 + 0.10 for the year + 0.10 for the authors, clamped
C22_SimilarityAtBoundScored ==
    /\ score_out # <<>>
    /\ score_in[1].search_method = "pmid"
    /\ score_in[1].scopus_record.Title = <<"Deep", "learning", "survey", "of">>
    /\ score_in[1].crossref_work.title = <<<<"deep", "learning", "survey", "of", "nets">>>>
    /\ TitleAdjustment(score_in[1].scopus_record, score_in[1].crossref_work, "pmid") = 0
    /\ ~score_out[1].raised

\* C23: the author adjustment is +0.10 iff the Jaccard overlap of the two
\* sides' sets of lower-cased last names (of each name the text before its
\* first comma) exceeds 0.5, -0.10 iff that overlap is below 0.2 and both
\* sides have an author, and none otherwise, so that two sides naming the
\* same last names are never penalised.
C23_AuthorAdjustment ==
    (score_out # <<>> /\ ~score_out[1].raised) =>
        LET in == score_in[1]
            record_authors == in.scopus_record.Authors
            work_authors == SelectSeq(in.crossref_work.author,
                                      LAMBDA a : a.family # "")
            record_names == {Lower(record_authors[k].last) :
                                k \in 1..Len(record_authors)}
            work_names == {Lower(work_authors[k].family) :
                              k \in 1..Len(work_authors)}
            common == Cardinality(record_names \cap work_names)
            all == Cardinality(record_names \cup work_names)
            expected == IF all > 0 /\ 10 * common > 5 * all THEN 10
                        ELSE IF /\ all = 0 \/ 10 * common < 2 * all
                                /\ record_authors # <<>>
                                /\ work_authors # <<>> THEN -10
                        ELSE 0
        IN  /\ AuthorAdjustment(in.scopus_record, in.crossref_work) = expected
            /\ record_names = work_names =>
                   AuthorAdjustment(in.scopus_record, in.crossref_work) >= 0

\* C24: the publication-details adjustment is made for the journal method
\* only: +0.10 iff the volumes are equal and the record's page range equals
\* the candidate's page range exactly, -0.20 iff both sides have a volume
\* and the volumes differ, and none in every other case.
C24_PublicationAdjustment ==
    (score_out # <<>> /\ ~score_out[1].raised) =>
        LET in == score_in[1]
            record_volume == Strip(in.scopus_record.Volume)
            work_volume == Strip(in.crossref_work.volume)
            volumes == record_volume # "" /\ work_volume # ""
            record_pages == in.scopus_record.PageStart \o <<"-">>
                               \o in.scopus_record.PageEnd
            expected == IF in.search_method # "journal" THEN 0
                        ELSE IF /\ volumes /\ record_volume = work_volume
                                /\ in.scopus_record.PageStart # <<>>
                                /\ in.scopus_record.PageEnd # <<>>
                                /\ record_pages = in.crossref_work.page THEN 10
                        ELSE IF volumes /\ record_volume # work_volume THEN -20
                        ELSE 0
        IN  PublicationAdjustment(in.scopus_record, in.crossref_work, in.search_method)
                = expected

\* what C25 expects of a reference of ten characters or more whose year
\* extraction does not raise: the year is extracted first, then the first
\* applicable of web document, no comma and comma decomposition decides.
\* In the comma decomposition the pattern scan runs over every part from
\* index 1 on (every_part) or over the parts that are neither numbers nor
\* page data, and the positional heuristic is consulted when it finds none.
C25_Expected(reference, every_part, out) ==
    LET stripped == StripStr(reference)
        y == ExtractYear(IF stripped[1] = "," THEN StripStr(Tail(stripped))
                         ELSE reference)
        working == y.reference
        result == [EmptyResult EXCEPT !.year = y.year]
        parts == Parts(working)
        scanned == {k \in 1..(Len(parts) - 1) :
                       /\ MatchesJournalPattern(PartAt(parts, k))
                       /\ \/ every_part
                          \/ ~(\/ IsDigitStr(PartAt(parts, k))
                               \/ MatchesPagePrefix(PartAt(parts, k))
                               \/ MatchesPageRange(PartAt(parts, k)))}
        journal_idx == IF scanned # {}
                       THEN CHOOSE a \in scanned : \A b \in scanned : a <= b
                       ELSE HeuristicJournalIdx(parts)
    IN  (Len(stripped) >= 10 /\ ~y.raised) =>
            IF IsSubstring(WwwMarker, working)
            THEN /\ ~out.raised
                 /\ out.result.journal = <<"W", "e", "b", " ", "D", "o", "c", "u", "m", "e", "n", "t">>
                 /\ out.result.authors = Null
            ELSE IF \A k \in 1..Len(working) : working[k] # ","
            THEN out = ParseNoComma(working, result)
            ELSE (Len(parts) >= 2 /\ ~IsStandards(parts)) =>
                     out = Returned(CleanUp(
                               IF journal_idx >= 2
                               THEN ParseJournalFormat(parts, journal_idx, result)
                               ELSE ParseFallback(parts, result).result))

\* C25: _parse_single_reference applies year extraction, web-document
\* detection, the no-comma fallback and the comma decomposition in this
\* order, a reference with the web-document marker is classified
\* 'Web Document' whatever else it contains, and the positional journal
\* heuristic is consulted only when no part from index 1 on matches a
\* journal pattern.
C25_HeuristicOrder ==
    parse_out # <<>> => C25_Expected(parse_in[1], TRUE, parse_out[1])

\* C25 as the code has it: the pattern scan skips the parts that are numbers
\* or page data ('pp.' prefix, 'n-m'), so the positional heuristic is
\* consulted when no other part from index 1 on matches a journal pattern.
C25_HeuristicOrderSkippingPageData ==
    parse_out # <<>> => C25_Expected(parse_in[1], FALSE, parse_out[1])

\* C25 witness: in 'Smith J, Deep nets, Med Phys, pp. 1-5 (Review)' only the
\* page part matches a journal pattern, and the positional heuristic chose
\* 'Med Phys'
C25_PositionalJournalChosen ==
    /\ parse_in = <<<<"S", "m", "i", "t", "h", " ", "J", ",", " ", "D", "e", "e", "p", " ", "n", "e", "t", "s", ",", " ", "M", "e", "d", " ", "P", "h", "y", "s", ",", " ", "p", "p", ".", " ", "1", "-", "5", " ", "(", "R", "e", "v", "i", "e", "w", ")">>>>
    /\ parse_out # <<>>
    /\ parse_out[1].result.journal = <<"M", "e", "d", " ", "P", "h", "y", "s">>
    /\ parse_out[1].result.pages = <<"1", "-", "5", " ", "(", "R", "e", "v", "i", "e", "w", ")">>

\* C26: the year extraction of _parse_single_reference takes a
\* parenthesised 4-digit number at the end of the string as year only if it
\* lies in [1900,2099], otherwise the first bare token (19|20)dd of the
\* string, and never returns a year outside [1900,2099].
C26_YearExtraction ==
    (/\ parse_out # <<>>
     /\ Len(StripStr(parse_in[1])) >= 10
     /\ ~parse_out[1].raised) =>
        LET stripped == StripStr(parse_in[1])
            reference == IF stripped[1] = "," THEN StripStr(Tail(stripped))
                         ELSE parse_in[1]
            p == ParenYearStart(reference)
            b == BareYearStart(reference)
            in_parentheses == IntOf(SubSeq(reference, p + 1, p + 4))
            expected == IF p > 0 /\ in_parentheses \in 1900..2099
                        THEN in_parentheses
                        ELSE IF b > 0 THEN IntOf(SubSeq(reference, b, b + 3))
                        ELSE NoYear
        IN  /\ parse_out[1].result.year = expected
            /\ parse_out[1].result.year \in {NoYear} \cup 1900..2099

\* C27: _deduplicate_records keeps, in input order, every record without a
\* DOI and exactly the first record of each distinct whitespace-stripped
\* DOI, drops every later record of a DOI already seen and nothing else, so
\* no two records of the output have the same DOI and duplicate_count =
\* len(input) - len(output).
C27_FirstOfEachDoiKept ==
    (/\ call_out # <<>>
     /\ call_in[1].op = "deduplicate"
     /\ call_out[1].raised = None) =>
        LET all_records == call_in[1].all_records
            unique_records == call_out[1].unique_records
            doi(record) == StripStr(record.DOI)
            kept == {k \in 1..Len(all_records) :
                        \/ doi(all_records[k]) = <<>>
                        \/ \A j \in 1..(k - 1) :
                               doi(all_records[j]) # doi(all_records[k])}
            nth(m) == CHOOSE k \in kept : Cardinality({j \in kept : j <= k}) = m
        IN  /\ Len(unique_records) = Cardinality(kept)
            /\ \A m \in 1..Len(unique_records) :
                   unique_records[m] = all_records[nth(m)]
            /\ \A m, n \in 1..Len(unique_records) :
                   (m # n /\ doi(unique_records[m]) # <<>>)
                       => doi(unique_records[m]) # doi(unique_records[n])
            /\ call_out[1].duplicate_count = Len(all_records) - Len(unique_records)

\* C27 witness: of the records with the DOIs '10.1/a', '' and ' 10.1/a' the
\* first two were kept and the third was counted as a duplicate
C27_LaterDuplicateDropped ==
    /\ call_out # <<>>
    /\ call_in[1].op = "deduplicate"
    /\ call_in[1].all_records =
           <<[DOI |-> <<"1", "0", ".", "1", "/", "a">>, Title |-> <<"T">>],
             [DOI |-> <<>>, Title |-> <<"T">>],
             [DOI |-> <<" ", "1", "0", ".", "1", "/", "a">>, Title |-> <<"T">>]>>
    /\ call_out[1].raised = None
    /\ Len(call_out[1].unique_records) = 2
    /\ call_out[1].duplicate_count = 1

\* C28: the record _attempt_crossref_recovery returns equals its input on
\* every field except DOI, _recovery_method and _recovery_confidence, a DOI
\* that was non-empty on input is never replaced by a different value, and
\* when no phase accepts the returned record is identical to the input.
C28_RecoveryOnlyAdds ==
    (pc = "check" /\ enable_crossref_recovery /\ crossref_client) =>
        /\ \A field \in (DOMAIN original_row)
                          \ {"DOI", "recovery_method", "recovery_confidence"} :
               row[field] = original_row[field]
        /\ Strip(original_row.DOI) # "" => row.DOI = original_row.DOI
        /\ accepted_phase = None => row = original_row

\* C29: in the title phase no candidate whose publication year is present
\* and differs from the record's year is ever accepted: its title-method
\* score is at most 0.70 - 0.30 + 0.10 and so below the threshold 0.65.
C29_YearMismatchNeverAccepted ==
    (call_out # <<>> /\ call_in[1].op = "phase2b") =>
        LET r == call_in[1].row
            out == call_out[1]
            candidates == IF call_in[1].http = "200" THEN call_in[1].items ELSE <<>>
            differs(work) == /\ Strip(r.Year) # ""
                             /\ work.published \notin {"absent", "null"}
                             /\ work.published # Strip(r.Year)
        IN  /\ \A k \in 1..Len(candidates) :
                   differs(candidates[k]) =>
                       LET scored == CalculateMatchConfidence(r, candidates[k], "title")
                       IN  /\ ~scored.raised
                           /\ FlGe(Fl(50), scored.confidence_score)
                           /\ ~ValidatePublicationMatch(r, candidates[k], "title", 65)
                                   .is_valid_match
            /\ out.accepted =>
                   \E k \in 1..Len(candidates) :
                       /\ ~differs(candidates[k])
                       /\ candidates[k].DOI = out.row.DOI

\* C29 witness: the title phase asked for a record of 2020 and got the right
\* title and author under the year 2019 alone, and did not accept it
C29_LaterYearRefused ==
    /\ call_out # <<>>
    /\ call_in[1].op = "phase2b"
    /\ call_in[1].http = "200"
    /\ call_in[1].row.Year = "2020"
    /\ call_in[1].items = <<[GoodWork EXCEPT !.published = "2019", !.DOI = "10.1/c3"]>>
    /\ call_out[1].called
    /\ ~call_out[1].accepted

\* C30: after any sequence of filter_csv_data calls on one filter the
\* statistics satisfy included_records + excluded_records = total_records.
C30_StatsAddUp ==
    (call_out # <<>> /\ call_in[1].op = "simple_filter_calls") =>
        call_out[1].stats.included_records + call_out[1].stats.excluded_records
            = call_out[1].stats.total_records

====
